---- MODULE Spec2Model ----
(***************************************************************************)
(* Model of the logo crawler: main and run_static_phase (app.py),          *)
(* run_playwright_batch and process_one (browser_manager.py), PagePool     *)
(* (page_pool.py), RestartManager (restart_manager.py) and                 *)
(* IncrementalCSVWriter (csv_writer.py).                                   *)
(*                                                                         *)
(* The program runs on one asyncio event loop, so the code between two     *)
(* awaits that really suspend is one atomic step.  Every action below is   *)
(* the code from one resumption to the next suspension.                    *)
(*                                                                         *)
(* The specifications share the variables and the actions:                 *)
(*   Spec        the render phase with every await of a task and of the    *)
(*               pool as a step of its own;                                *)
(*   SpecBusy    the render phase of a batch one domain longer, from the   *)
(*               collection of its first domain on;                        *)
(*   SpecMain    main from the first static result to the failure          *)
(*               manifest, with a domain task as one step;                 *)
(*   SpecStatic  run_static_phase alone;                                   *)
(*   SpecUnreachable  SpecMain with one domain that plain HTTP does not    *)
(*               reach;                                                    *)
(*   SpecSizer   main from the sizers of utils/worker.py on, with the      *)
(*               static and the render tasks at their admission gates;     *)
(*   SpecOrder   main with the completion of a task and its collection as  *)
(*               separate steps in both phases;                            *)
(*   SpecTasks   the process_one tasks with the sleep of random_delay;     *)
(*   SpecDomain  process_domain called directly on a page;                 *)
(*   SpecPool    PagePool called directly, on a clock;                     *)
(*   SpecRestart RestartManager called directly;                           *)
(*   SpecWriter  IncrementalCSVWriter called directly;                     *)
(*   SpecWorkers the sizers of utils/worker.py called on any host;         *)
(*   SpecBatch   the collection loop of run_playwright_batch with a task   *)
(*               as one step;                                              *)
(*   SpecRelease the process_one tasks and PagePool.release with failing   *)
(*               page operations, without rotation;                        *)
(*   SpecInvalid SpecMain with one domain that sanitize_domain rejects.    *)
(***************************************************************************)
EXTENDS Integers, Sequences, FiniteSets, TLC

(***************************************************************************)
(* Bounds of the model.  The configuration values of config.py are scaled  *)
(* down so that every case is reached in a small state space.              *)
(***************************************************************************)
\* number of domains: read from stdin by main, handed to run_playwright_batch
NumDomains == 3
\* config.PLAYWRIGHT_TABS (4 in config.py): pool size and semaphore size
PLAYWRIGHT_TABS == 2
\* config.PAGE_MAX_USES (25 in config.py)
PAGE_MAX_USES == 2
\* config.RESTART_EVERY_N_DOMAINS (50 in config.py)
RESTART_EVERY_N_DOMAINS == 2
\* config.MEMORY_CHECK_INTERVAL (10 in config.py)
MEMORY_CHECK_INTERVAL == 2
\* buffer_size of the IncrementalCSVWriter built in main (10 in app.py)
BUFFER_SIZE == 2
\* default timeout of PagePool.acquire (30.0 seconds in page_pool.py)
ACQUIRE_TIMEOUT == 2
\* config.REQUEST_DELAY_MIN (500 ms in config.py)
REQUEST_DELAY_MIN == 1
\* config.REQUEST_DELAY_MAX (1500 ms in config.py)
REQUEST_DELAY_MAX == 2
\* config.MIN_WORKERS (10 in config.py)
MIN_WORKERS == 1
\* config.MAX_WORKERS (120 in config.py)
MAX_WORKERS == 8
\* least number of browser workers of get_playwright_workers (2 in worker.py)
MinPlaywrightWorkers == 1
\* greatest number of browser workers of get_playwright_workers (20 in
\* worker.py)
MaxPlaywrightWorkers == 3
\* psutil.cpu_count(logical=True): 1 .. MaxCpuCount
MaxCpuCount == 2
\* workers the available memory is enough for, int(...) of worker.py:
\* 0 .. MaxMemoryWorkers
MaxMemoryWorkers == 3
\* config.MEMORY_PER_WORKER (120 MB in config.py)
MEMORY_PER_WORKER == 2
\* config.PLAYWRIGHT_MEMORY_PER_WORKER (400 MB in config.py)
PLAYWRIGHT_MEMORY_PER_WORKER == 3
\* SpecWorkers: psutil.cpu_count is None (0) or 1 .. MaxHostCpu
MaxHostCpu == 4
\* SpecWorkers: the available memory is 0 .. MaxHostMemory MB
MaxHostMemory == 30
\* SpecWriter: write() is called at most MaxWrites times
MaxWrites == 4

Domains == 1 .. NumDomains
\* SpecPool: the clock stops once every timer started at time 0 or 1 is due
MaxTime == ACQUIRE_TIMEOUT + 1

\* Every rotation needs a completed domain, and the last one never rotates.
MaxContexts == NumDomains
\* Pages ever created: the initial set, one set per rotation, one replacement
\* per release.
MaxPages == PLAYWRIGHT_TABS * MaxContexts + NumDomains
Pages == 1 .. MaxPages

VARIABLES
    \* ---- main and run_static_phase (app.py)
    mpc,            \* position of main
    sdone,          \* domains whose static task has been collected
    static_found,
    needs_render,
    static_failed,
    manifest,       \* rows of failed_domains.csv
    \* ---- process_one tasks (browser_manager.py:79-100)
    tpc,            \* position of each task
    tpage,          \* the page the task holds (0: none)
    tctx,           \* context on which the task's pending new_page() was called
    tresult,        \* what the task ended with: a logo, "" or "raised"
    cause,          \* SpecMain: how the task's processing ended
    sem,            \* free slots of asyncio.Semaphore(tab_count)
    doneQ,          \* completed tasks in completion order, not yet collected
    \* ---- PagePool (page_pool.py:30-35)
    available,      \* _available queue
    all_pages,      \* _all_pages list
    page_usage,     \* _page_usage dict (-1: no entry)
    initialized,    \* _initialized
    poolContext,    \* pool.context
    \* ---- browser
    pageStatus,     \* "none" (not created), "open", "closed"
    pageCtx,        \* context a page was created in
    nextPage,       \* next fresh page identity
    ctxClosed,      \* contexts that have been closed
    \* ---- run_playwright_batch (browser_manager.py:40-151)
    render_domains, \* parameter domains
    cpc,            \* position of the collection loop
    context,        \* local variable context
    old_context,    \* local variable old_context
    closeIdx,       \* iterator position of PagePool.close's for loop
    initCount,      \* iterations done of PagePool._initialize's for loop
    processed,
    found,
    failed_domains,
    \* ---- RestartManager
    domains_since_restart,
    total_restarts,
    \* ---- IncrementalCSVWriter
    wbuffer,
    wstream,
    \* ---- observation
    releases,       \* how often release() was called with a page
    now,            \* SpecPool: the clock of the event loop
    deadline,       \* SpecPool: when the wait_for of a caller's acquire expires
    last_call,      \* SpecRestart: the latest should_restart() call
    last_static,    \* SpecStatic: the latest collected static task
    \* ---- process_domain (domain_processor.py), SpecDomain
    rpc,            \* position of process_domain / _process_url
    rvar,           \* the URL variant of the loop (0: none yet)
    rlog,           \* calls made on the page: <<variant, call, result>>
    rlogo,          \* logo of the tuple returned ("none": not returned)
    \* ---- random_delay (anti_blocking.py), SpecTasks
    last_sleep,     \* milliseconds of the latest sleep of random_delay
    \* ---- main and run_static_phase with every static task a process of
    \* ---- its own (app.py), SpecSizer and SpecOrder
    static_workers,     \* main: get_optimal_workers()[0] (0: not called yet)
    playwright_workers, \* main: get_playwright_workers() (0: not called yet)
    static_sem,     \* free slots of the sem of run_static_phase
    spc,            \* position of the sem_task of a domain
    sres,           \* the tuple the sem_task of a domain returned
    sdoneQ,         \* completed static tasks as_completed has not yielded yet
    \* ---- IncrementalCSVWriter (csv_writer.py) called directly, SpecWriter
    wcalls,         \* the records write() was called with, in call order
    wpc,            \* "new", "open" (header written) or "closed"
    \* ---- the sizers of utils/worker.py called directly, SpecWorkers
    host_cpu,       \* psutil.cpu_count(logical=True) (0: None)
    host_memory,    \* psutil.virtual_memory().available, in MB (-1: the
                    \* call raises)
    last_sizing     \* the latest call of a sizer and what it computed

mainVars == <<mpc, sdone, static_found, needs_render, static_failed, manifest>>
taskVars == <<tpc, tpage, tctx, tresult, cause, sem, doneQ>>
poolVars == <<available, all_pages, page_usage, initialized, poolContext>>
browserVars == <<pageStatus, pageCtx, nextPage, ctxClosed>>
batchVars == <<render_domains, cpc, context, old_context, closeIdx, initCount,
               processed, found, failed_domains>>
restartVars == <<domains_since_restart, total_restarts>>
writerVars == <<wbuffer, wstream>>
timeVars == <<now, deadline>>
domVars == <<rpc, rvar, rlog, rlogo>>
gateVars == <<static_workers, playwright_workers, static_sem, spc, sres,
              sdoneQ>>
unitVars == <<wcalls, wpc, host_cpu, host_memory, last_sizing>>
callVars == <<last_call, last_static, domVars, last_sleep, gateVars, unitVars>>
vars == <<mainVars, taskVars, poolVars, browserVars, batchVars, restartVars,
          writerVars, releases, timeVars, callVars>>

\* The static tasks are not followed one by one: main has not called the
\* sizers and run_static_phase has created no task.
NoStaticTasks ==
    /\ static_workers = 0
    /\ playwright_workers = 0
    /\ static_sem = 0
    /\ spc = [d \in Domains |-> "none"]
    /\ sres = [d \in Domains |-> <<"none", FALSE>>]
    /\ sdoneQ = <<>>

\* The writer is the one main built and wrote the header of; its calls are
\* not recorded.
WriterInMain ==
    /\ wcalls = <<>>
    /\ wpc = "open"

\* No sizer has been called.
NoSizing == [sizer |-> "none", raised |-> FALSE, cpu_count |-> 0,
             cpu_based_workers |-> 0, memory_based_workers |-> 0,
             workers |-> 0]

\* The host is not followed: the sizers are not called directly.
HostNotRead ==
    /\ host_cpu = 0
    /\ host_memory = 0
    /\ last_sizing = NoSizing

\* random_delay (anti_blocking.py) has not slept yet.
NoSleep == 0

----------------------------------------------------------------------------
(* Helpers *)

\* list.remove(x): drops the first occurrence of x
RECURSIVE RemoveFirst(_, _)
RemoveFirst(s, x) ==
    IF s = <<>> THEN <<>>
    ELSE IF Head(s) = x THEN Tail(s)
    ELSE <<Head(s)>> \o RemoveFirst(Tail(s), x)

InSeq(s, x) == \E i \in 1 .. Len(s) : s[i] = x

\* Page.is_closed()
IsClosed(p) == pageStatus[p] # "open"

----------------------------------------------------------------------------
(* RestartManager (restart_manager.py) *)

\* A faulty should_restart() that reads the memory at every count.
should_restart_every_count(count, memHigh) ==
    \/ count >= RESTART_EVERY_N_DOMAINS
    \/ memHigh

\* should_restart(): the count trigger, then the memory trigger, which reads
\* the memory only when the count is a multiple of memory_check_interval.
\* memHigh is the comparison mem_pct > memory_threshold of that reading.
should_restart(count, memHigh) ==
    \/ count >= RESTART_EVERY_N_DOMAINS
    \/ (count % MEMORY_CHECK_INTERVAL = 0 /\ memHigh)

\* Whether should_restart() calls get_memory_percent() at that count.
reads_memory(count) ==
    /\ count < RESTART_EVERY_N_DOMAINS
    /\ count % MEMORY_CHECK_INTERVAL = 0

\* No should_restart() call has been made yet.
NoCall == [count |-> -1, memHigh |-> FALSE, read |-> FALSE, answer |-> FALSE]

----------------------------------------------------------------------------
(* IncrementalCSVWriter (csv_writer.py) *)

\* A write that flushes only a buffer longer than buffer_size.
WriterWriteLate(buf, str, rec) ==
    LET b == Append(buf, rec)
    IN  IF Len(b) > BUFFER_SIZE THEN <<(<<>>), str \o b>> ELSE <<b, str>>

\* write(): append to the buffer, flush when it holds buffer_size records.
\* Yields <<buffer, stream>>.
WriterWrite(buf, str, rec) ==
    LET b == Append(buf, rec)
    IN  IF Len(b) >= BUFFER_SIZE THEN <<(<<>>), str \o b>> ELSE <<b, str>>

----------------------------------------------------------------------------
(* process_domain_static (processor_async.py:15-65) *)

\* What one URL variant gives: fetch_html returns None ("unreachable"),
\* markup in which extract_logo finds a logo ("logo") or none ("nologo"), or
\* markup on which the extraction raises ("raises").
VariantResults == {"unreachable", "logo", "nologo", "raises"}
\* candidates: https-apex, https-www, http-apex, http-www
Variants == 1 .. 4
Worlds == [Variants -> VariantResults]

\* A faulty loop that goes on to the next variant after markup without a
\* logo.
VariantStepPastNoLogo(r) ==
    CASE r = "unreachable" -> "next"
      [] r = "raises" -> "next"
      [] r = "logo" -> "found"
      [] r = "nologo" -> "next"

\* One pass of the loop body: "next" (continue), "found" (return the logo),
\* "render" (return needs_render) or "raise" (the exception leaves the loop).
VariantStep(r) ==
    CASE r = "unreachable" -> "next"
      [] r = "raises" -> "next"
      [] r = "logo" -> "found"
      [] r = "nologo" -> "render"

\* The for loop over candidates from variant i on.  Yields
\* <<logo_url, needs_render>>, or <<"raised", FALSE>> if an exception escapes.
RECURSIVE TryVariants(_, _)
TryVariants(w, i) ==
    IF i > 4 THEN <<"", TRUE>>
    ELSE CASE VariantStep(w[i]) = "next" -> TryVariants(w, i + 1)
           [] VariantStep(w[i]) = "found" -> <<"logo", FALSE>>
           [] VariantStep(w[i]) = "render" -> <<"", TRUE>>
           [] VariantStep(w[i]) = "raise" -> <<"raised", FALSE>>

\* The candidates the for loop hands to fetch_html, in the order of the
\* calls, from variant i on.
RECURSIVE FetchedVariants(_, _)
FetchedVariants(w, i) ==
    IF i > 4 THEN <<>>
    ELSE IF VariantStep(w[i]) = "next"
         THEN <<i>> \o FetchedVariants(w, i + 1)
         ELSE <<i>>

\* The fetches of one process_domain_static call.
static_fetches(valid, w) == IF ~valid THEN <<>> ELSE FetchedVariants(w, 1)

\* A faulty static stage that never asks for rendering.
process_domain_static_never_render(valid, w) ==
    IF ~valid THEN <<"", FALSE>> ELSE <<TryVariants(w, 1)[1], FALSE>>

\* valid: sanitize_domain accepted the input string.
process_domain_static(valid, w) ==
    IF ~valid THEN <<"", FALSE>> ELSE TryVariants(w, 1)

\* No static task has been collected yet.
NoStatic == [domain |-> 0, valid |-> FALSE,
             world |-> [i \in Variants |-> "unreachable"],
             logo_url |-> "", needs_render |-> FALSE, fetched |-> <<>>]

----------------------------------------------------------------------------
(* process_one (browser_manager.py:79-100) *)

\* How wait_for(process_domain(page, domain)) ends: with a logo, without one,
\* with an exception, or cancelled by the hard per-domain timeout.
Outcomes == {"found", "notfound", "error", "hardtimeout"}

\* A faulty process_one that hands on a logo although the deadline struck.
ProcessOneLogoAfterDeadline(o) ==
    IF o \in {"found", "hardtimeout"} THEN "logo" ELSE ""

\* The logo of the tuple process_one returns: process_domain's logo when it
\* returned in time, "" on asyncio.TimeoutError and on any other exception.
ProcessOneLogo(o) == IF o = "found" THEN "logo" ELSE ""

\* A faulty process_one without the "except Exception" clause.
ProcessOneRaisesOnError(o) == o \in {"acquire_timeout", "error"}

\* The exceptions that leave process_one: pool.acquire() is called outside
\* the try block, so only its TimeoutError does.
ProcessOneRaises(o) == o = "acquire_timeout"

\* What the task object ends with.
TaskResult(o) == IF ProcessOneRaises(o) THEN "raised" ELSE ProcessOneLogo(o)

\* The third component of the tuple: bool(result[1]), False in the handlers.
ProcessOneSuccess(logo) == logo # ""

\* A task holds its page from acquire's return to release's return.
Holding(d) == tpc[d] \in {"run", "rp_close", "rp_dead", "rp_new", "clear"}

\* No exception has left run_playwright_batch.
Raised == {"raised_launch", "raised_task", "raised_new_context"}
Alive == cpc \notin Raised

\* release() returned: the finally block ends, the semaphore is released and
\* the task completes.
Finish(d) ==
    /\ tpc' = [tpc EXCEPT ![d] = "done"]
    /\ tpage' = [tpage EXCEPT ![d] = 0]
    /\ tctx' = [tctx EXCEPT ![d] = 0]
    /\ sem' = sem + 1
    /\ doneQ' = Append(doneQ, d)

\* random_delay() has elapsed.
Delay(d) ==
    /\ Alive
    /\ tpc[d] = "delay"
    /\ tpc' = [tpc EXCEPT ![d] = "sem"]
    /\ UNCHANGED <<tpage, tctx, tresult, cause, sem, doneQ>>
    /\ UNCHANGED <<mainVars, poolVars, browserVars, batchVars, restartVars,
                   writerVars>>
    /\ UNCHANGED <<releases, timeVars, callVars>>

\* async with sem: the admission gate.
SemAcquire(d) ==
    /\ Alive
    /\ tpc[d] = "sem"
    /\ sem > 0
    /\ sem' = sem - 1
    /\ tpc' = [tpc EXCEPT ![d] = "acquire"]
    /\ UNCHANGED <<tpage, tctx, tresult, cause, doneQ>>
    /\ UNCHANGED <<mainVars, poolVars, browserVars, batchVars, restartVars,
                   writerVars>>
    /\ UNCHANGED <<releases, timeVars, callVars>>

\* A faulty acquire that reads the head of the queue without removing it.
AcquireWithoutGet(d) ==
    /\ Alive
    /\ tpc[d] = "acquire"
    /\ available # <<>>
    /\ tpage' = [tpage EXCEPT ![d] = Head(available)]
    /\ tpc' = [tpc EXCEPT ![d] = "run"]
    /\ UNCHANGED <<tctx, tresult, cause, sem, doneQ>>
    /\ UNCHANGED <<poolVars, mainVars, browserVars, batchVars, restartVars,
                   writerVars>>
    /\ UNCHANGED <<releases, timeVars, callVars>>

\* PagePool.acquire: _available.get() returns the head of the queue.
Acquire(d) ==
    /\ Alive
    /\ tpc[d] = "acquire"
    /\ available # <<>>
    /\ tpage' = [tpage EXCEPT ![d] = Head(available)]
    /\ available' = Tail(available)
    /\ tpc' = [tpc EXCEPT ![d] = "run"]
    /\ UNCHANGED <<tctx, tresult, cause, sem, doneQ>>
    /\ UNCHANGED <<all_pages, page_usage, initialized, poolContext>>
    /\ UNCHANGED <<mainVars, browserVars, batchVars, restartVars, writerVars>>
    /\ UNCHANGED <<releases, timeVars, callVars>>

\* PagePool.acquire: the queue stayed empty for the whole timeout; wait_for
\* raises asyncio.TimeoutError, acquire re-raises it, and process_one (which
\* calls acquire outside its try block) ends with that exception.
AcquireTimeout(d) ==
    /\ Alive
    /\ tpc[d] = "acquire"
    /\ available = <<>>
    /\ tresult' = [tresult EXCEPT ![d] = TaskResult("acquire_timeout")]
    /\ Finish(d)
    /\ UNCHANGED cause
    /\ UNCHANGED <<mainVars, poolVars, browserVars, batchVars, restartVars,
                   writerVars>>
    /\ UNCHANGED <<releases, timeVars, callVars>>

\* _replace_page up to its first await, for a page found closed: the page is
\* dropped from the tracking and new_page() is called on self.context.
ReplaceDead(d, p) ==
    /\ all_pages' = RemoveFirst(all_pages, p)
    /\ page_usage' = [page_usage EXCEPT ![p] = -1]
    /\ tctx' = [tctx EXCEPT ![d] = poolContext]
    /\ tpc' = [tpc EXCEPT ![d] = "rp_dead"]

\* _replace_page up to its first await, for an open page: the page is dropped
\* from the tracking and old_page.close() is awaited.
ReplaceOpen(d, p) ==
    /\ all_pages' = RemoveFirst(all_pages, p)
    /\ page_usage' = [page_usage EXCEPT ![p] = -1]
    /\ tctx' = tctx
    /\ tpc' = [tpc EXCEPT ![d] = "rp_close"]

\* A release that recycles a page only after more than PAGE_MAX_USES uses.
ReleaseEnterLate(d, p, closed) ==
    IF closed
    THEN ReplaceDead(d, p)
    ELSE LET usage == (IF page_usage[p] = -1 THEN 0 ELSE page_usage[p]) + 1
         IN  IF usage > PAGE_MAX_USES
             THEN ReplaceOpen(d, p)
             ELSE /\ page_usage' = [page_usage EXCEPT ![p] = usage]
                  /\ all_pages' = all_pages
                  /\ tctx' = tctx
                  /\ tpc' = [tpc EXCEPT ![d] = "clear"]

\* release() up to its first await; closed is page.is_closed().
ReleaseEnter(d, p, closed) ==
    IF closed
    THEN ReplaceDead(d, p)
    ELSE LET usage == (IF page_usage[p] = -1 THEN 0 ELSE page_usage[p]) + 1
         IN  IF usage >= PAGE_MAX_USES
             THEN ReplaceOpen(d, p)
             ELSE /\ page_usage' = [page_usage EXCEPT ![p] = usage]
                  /\ all_pages' = all_pages
                  /\ tctx' = tctx
                  /\ tpc' = [tpc EXCEPT ![d] = "clear"]

\* A faulty process_one whose release sits at the end of the try block
\* instead of a finally clause: on a timeout or an exception the task ends
\* without releasing its page.
ProcessDomainWithoutFinally(d) ==
    /\ Alive
    /\ tpc[d] = "run"
    /\ \E o \in Outcomes, crash \in BOOLEAN :
         LET p == tpage[d]
             st == IF crash THEN "closed" ELSE pageStatus[p]
         IN  /\ tresult' = [tresult EXCEPT ![d] = TaskResult(o)]
             /\ pageStatus' = [pageStatus EXCEPT ![p] = st]
             /\ IF o \in {"error", "hardtimeout"}
                THEN /\ Finish(d)
                     /\ UNCHANGED <<all_pages, page_usage>>
                ELSE /\ ReleaseEnter(d, p, st # "open")
                     /\ UNCHANGED <<tpage, sem, doneQ>>
    /\ UNCHANGED cause
    /\ UNCHANGED <<available, initialized, poolContext>>
    /\ UNCHANGED <<pageCtx, nextPage, ctxClosed>>
    /\ UNCHANGED <<mainVars, batchVars, restartVars, writerVars>>
    /\ releases' = [releases EXCEPT ![tpage[d]] = @ + 1]
    /\ UNCHANGED <<timeVars, callVars>>

\* wait_for(process_domain(page, domain)) ends in one of the Outcomes.  The
\* tab may have died (crash) while it was used.  The except and finally
\* clauses run on without suspending, into release().
ProcessDomain(d) ==
    /\ Alive
    /\ tpc[d] = "run"
    /\ \E o \in Outcomes, crash \in BOOLEAN :
         LET p == tpage[d]
             st == IF crash THEN "closed" ELSE pageStatus[p]
         IN  /\ tresult' = [tresult EXCEPT ![d] = TaskResult(o)]
             /\ pageStatus' = [pageStatus EXCEPT ![p] = st]
             /\ ReleaseEnter(d, p, st # "open")
    /\ UNCHANGED <<tpage, cause, sem, doneQ>>
    /\ UNCHANGED <<available, initialized, poolContext>>
    /\ UNCHANGED <<pageCtx, nextPage, ctxClosed>>
    /\ UNCHANGED <<mainVars, batchVars, restartVars, writerVars>>
    /\ releases' = [releases EXCEPT ![tpage[d]] = @ + 1]
    /\ UNCHANGED <<timeVars, callVars>>

\* _replace_page: old_page.close() returned; new_page() is called on
\* self.context.
ReplaceClose(d) ==
    /\ Alive
    /\ tpc[d] = "rp_close"
    /\ pageStatus' = [pageStatus EXCEPT ![tpage[d]] = "closed"]
    /\ tctx' = [tctx EXCEPT ![d] = poolContext]
    /\ tpc' = [tpc EXCEPT ![d] = "rp_new"]
    /\ UNCHANGED <<tpage, tresult, cause, sem, doneQ>>
    /\ UNCHANGED <<poolVars, pageCtx, nextPage, ctxClosed>>
    /\ UNCHANGED <<mainVars, batchVars, restartVars, writerVars>>
    /\ UNCHANGED <<releases, timeVars, callVars>>

\* context.new_page() called on context c returned page p: it is tracked
\* and queued (page_pool.py:53-56 and 169-172).
TrackNewPage(p, c) ==
    /\ pageStatus' = [pageStatus EXCEPT ![p] = "open"]
    /\ pageCtx' = [pageCtx EXCEPT ![p] = c]
    /\ nextPage' = p + 1
    /\ all_pages' = Append(all_pages, p)
    /\ page_usage' = [page_usage EXCEPT ![p] = 0]
    /\ available' = Append(available, p)

\* _replace_page: new_page() ends.  On a context closed meanwhile it raises
\* and the handler swallows it; otherwise the new page is tracked and queued.
ReplaceNew(d) ==
    /\ Alive
    /\ tpc[d] \in {"rp_dead", "rp_new"}
    /\ IF tctx[d] \in ctxClosed
       THEN UNCHANGED <<poolVars, browserVars>>
       ELSE /\ TrackNewPage(nextPage, tctx[d])
            /\ UNCHANGED <<initialized, poolContext, ctxClosed>>
    /\ Finish(d)
    /\ UNCHANGED <<tresult, cause>>
    /\ UNCHANGED <<mainVars, batchVars, restartVars, writerVars>>
    /\ UNCHANGED <<releases, timeVars, callVars>>

\* A release that may queue the page while process_domain still uses it.
ClearDoneWhileInUse(d) ==
    /\ Alive
    /\ tpc[d] \in {"run", "clear"}
    /\ available' = Append(available, tpage[d])
    /\ Finish(d)
    /\ UNCHANGED <<tresult, cause>>
    /\ UNCHANGED <<all_pages, page_usage, initialized, poolContext>>
    /\ UNCHANGED <<mainVars, browserVars, batchVars, restartVars, writerVars>>
    /\ UNCHANGED <<releases, timeVars, callVars>>

\* release: _clear_page ended (its errors are swallowed) and the page goes
\* back into the queue.
ClearDone(d) ==
    /\ Alive
    /\ tpc[d] = "clear"
    /\ available' = Append(available, tpage[d])
    /\ Finish(d)
    /\ UNCHANGED <<tresult, cause>>
    /\ UNCHANGED <<all_pages, page_usage, initialized, poolContext>>
    /\ UNCHANGED <<mainVars, browserVars, batchVars, restartVars, writerVars>>
    /\ UNCHANGED <<releases, timeVars, callVars>>

\* SpecMain: a whole process_one as one step, from random_delay to the end
\* of release, ending in one of the Outcomes or with acquire's TimeoutError.
RenderTask(d) ==
    /\ Alive
    /\ tpc[d] = "delay"
    /\ \E o \in Outcomes \cup {"acquire_timeout"} :
         /\ cause' = [cause EXCEPT ![d] = o]
         /\ tresult' = [tresult EXCEPT ![d] = TaskResult(o)]
    /\ tpc' = [tpc EXCEPT ![d] = "done"]
    /\ doneQ' = Append(doneQ, d)
    /\ UNCHANGED <<tpage, tctx, sem>>
    /\ UNCHANGED <<mainVars, poolVars, browserVars, batchVars, restartVars,
                   writerVars>>
    /\ UNCHANGED <<releases, timeVars, callVars>>

----------------------------------------------------------------------------
(* run_playwright_batch: the collection loop (browser_manager.py:105-139) *)

\* An exception leaves run_playwright_batch: nothing of it runs any more.
Raise(how) ==
    /\ cpc' = how
    /\ UNCHANGED <<render_domains, context, old_context, closeIdx, initCount,
                   processed, found, failed_domains>>

\* A collection loop that rotates after the last domain too.
CollectRotatingAtLast ==
    /\ cpc = "collect"
    /\ doneQ # <<>>
    /\ LET d == Head(doneQ)
           logo == tresult[d]
       IN  /\ doneQ' = Tail(doneQ)
           /\ IF logo = "raised"
              THEN /\ Raise("raised_task")
                   /\ UNCHANGED <<restartVars, writerVars>>
              ELSE /\ processed' = processed + 1
                   /\ domains_since_restart' = domains_since_restart + 1
                   /\ IF ProcessOneSuccess(logo) /\ logo # ""
                      THEN /\ found' = found + 1
                           /\ wbuffer' = WriterWrite(wbuffer, wstream, d)[1]
                           /\ wstream' = WriterWrite(wbuffer, wstream, d)[2]
                           /\ failed_domains' = failed_domains
                      ELSE /\ failed_domains' = Append(failed_domains, d)
                           /\ UNCHANGED <<found, writerVars>>
                   /\ \E memHigh \in BOOLEAN :
                        IF should_restart(domains_since_restart', memHigh)
                        THEN /\ cpc' = "new_context"
                             /\ old_context' = context
                        ELSE /\ cpc' = IF processed' = Len(render_domains)
                                       THEN "cleanup" ELSE "collect"
                             /\ old_context' = old_context
                   /\ UNCHANGED <<render_domains, context, closeIdx, initCount,
                                  total_restarts>>
    /\ UNCHANGED <<tpc, tpage, tctx, tresult, cause, sem>>
    /\ UNCHANGED <<mainVars, poolVars, browserVars>>
    /\ UNCHANGED <<releases, timeVars, callVars>>

\* One iteration of "for task in asyncio.as_completed(tasks)" up to its next
\* suspension: the result of the task that completed first is taken, counted,
\* written or recorded as failed, and the restart triggers are evaluated.
Collect ==
    /\ cpc = "collect"
    /\ doneQ # <<>>
    /\ LET d == Head(doneQ)
           logo == tresult[d]
       IN  /\ doneQ' = Tail(doneQ)
           /\ IF logo = "raised"
              THEN /\ Raise("raised_task")
                   /\ UNCHANGED <<restartVars, writerVars>>
              ELSE /\ processed' = processed + 1
                   /\ domains_since_restart' = domains_since_restart + 1
                   /\ IF ProcessOneSuccess(logo) /\ logo # ""
                      THEN /\ found' = found + 1
                           /\ wbuffer' = WriterWrite(wbuffer, wstream, d)[1]
                           /\ wstream' = WriterWrite(wbuffer, wstream, d)[2]
                           /\ failed_domains' = failed_domains
                      ELSE /\ failed_domains' = Append(failed_domains, d)
                           /\ UNCHANGED <<found, writerVars>>
                   /\ \E memHigh \in BOOLEAN :
                        IF should_restart(domains_since_restart', memHigh)
                           /\ processed' < Len(render_domains)
                        THEN /\ cpc' = "new_context"
                             /\ old_context' = context
                        ELSE /\ cpc' = IF processed' = Len(render_domains)
                                       THEN "cleanup" ELSE "collect"
                             /\ old_context' = old_context
                   /\ UNCHANGED <<render_domains, context, closeIdx, initCount,
                                  total_restarts>>
    /\ UNCHANGED <<tpc, tpage, tctx, tresult, cause, sem>>
    /\ UNCHANGED <<mainVars, poolVars, browserVars>>
    /\ UNCHANGED <<releases, timeVars, callVars>>

\* A faulty rotation that closes the old context as soon as the new one
\* exists, before the pool is rebuilt.
NewContextClosingOld ==
    /\ cpc = "new_context"
    /\ context' = context + 1
    /\ closeIdx' = 1
    /\ cpc' = "rebuild_close"
    /\ ctxClosed' = ctxClosed \cup {old_context}
    /\ pageStatus' = [p \in Pages |->
                        IF pageCtx[p] = old_context /\ pageStatus[p] = "open"
                        THEN "closed" ELSE pageStatus[p]]
    /\ UNCHANGED <<render_domains, old_context, initCount, processed, found,
                   failed_domains>>
    /\ UNCHANGED <<pageCtx, nextPage>>
    /\ UNCHANGED <<mainVars, taskVars, poolVars, restartVars, writerVars>>
    /\ UNCHANGED <<releases, timeVars, callVars>>

\* browser.new_context() returned: context is rebound and pool.rebuild(context)
\* runs into PagePool.close's loop.
NewContext ==
    /\ cpc = "new_context"
    /\ context' = context + 1
    /\ closeIdx' = 1
    /\ cpc' = "rebuild_close"
    /\ UNCHANGED <<render_domains, old_context, initCount, processed, found,
                   failed_domains>>
    /\ UNCHANGED <<mainVars, taskVars, poolVars, browserVars, restartVars,
                   writerVars>>
    /\ UNCHANGED <<releases, timeVars, callVars>>

\* browser.new_context() raised.
NewContextFails ==
    /\ cpc = "new_context"
    /\ Raise("raised_new_context")
    /\ UNCHANGED <<mainVars, taskVars, poolVars, browserVars, restartVars,
                   writerVars>>
    /\ UNCHANGED <<releases, timeVars, callVars>>

\* Index of the next page, from position i of _all_pages on, that is open.
RECURSIVE NextOpen(_)
NextOpen(i) ==
    IF i > Len(all_pages) THEN 0
    ELSE IF ~IsClosed(all_pages[i]) THEN i
    ELSE NextOpen(i + 1)

\* PagePool.close, called by rebuild: the for loop closes the next page of
\* _all_pages that is not closed yet, whoever holds it.
RebuildClosePage ==
    /\ cpc = "rebuild_close"
    /\ NextOpen(closeIdx) # 0
    /\ pageStatus' = [pageStatus EXCEPT ![all_pages[NextOpen(closeIdx)]] = "closed"]
    /\ closeIdx' = NextOpen(closeIdx) + 1
    /\ UNCHANGED <<render_domains, cpc, context, old_context, initCount,
                   processed, found, failed_domains>>
    /\ UNCHANGED <<pageCtx, nextPage, ctxClosed>>
    /\ UNCHANGED <<mainVars, taskVars, poolVars, restartVars, writerVars>>
    /\ UNCHANGED <<releases, timeVars, callVars>>

\* PagePool.close after its loop (the lists are cleared, the queue drained),
\* then rebuild sets self.context and enters _initialize.
RebuildCloseEnd ==
    /\ cpc = "rebuild_close"
    /\ NextOpen(closeIdx) = 0
    /\ all_pages' = <<>>
    /\ page_usage' = [p \in Pages |-> -1]
    /\ available' = <<>>
    /\ initialized' = FALSE
    /\ poolContext' = context
    /\ closeIdx' = 0
    /\ initCount' = 0
    /\ cpc' = "rebuild_init"
    /\ UNCHANGED <<render_domains, context, old_context, processed, found,
                   failed_domains>>
    /\ UNCHANGED <<mainVars, taskVars, browserVars, restartVars, writerVars>>
    /\ UNCHANGED <<releases, timeVars, callVars>>

\* PagePool._initialize, called by rebuild: one new_page() of the loop
\* returned; after the last one rebuild returns and old_context.close() is
\* awaited.
RebuildInit ==
    /\ cpc = "rebuild_init"
    /\ TrackNewPage(nextPage, poolContext)
    /\ IF initCount + 1 = PLAYWRIGHT_TABS
       THEN initCount' = 0 /\ initialized' = TRUE /\ cpc' = "close_old"
       ELSE initCount' = initCount + 1 /\ initialized' = initialized /\ cpc' = cpc
    /\ UNCHANGED <<poolContext, ctxClosed>>
    /\ UNCHANGED <<render_domains, context, old_context, closeIdx, processed,
                   found, failed_domains>>
    /\ UNCHANGED <<mainVars, taskVars, restartVars, writerVars>>
    /\ UNCHANGED <<releases, timeVars, callVars>>

\* An end of the rotation that leaves the counter of the manager as it is.
CloseOldWithoutReset ==
    /\ cpc = "close_old"
    /\ ctxClosed' = ctxClosed \cup {old_context}
    /\ pageStatus' = [p \in Pages |->
                        IF pageCtx[p] = old_context /\ pageStatus[p] = "open"
                        THEN "closed" ELSE pageStatus[p]]
    /\ domains_since_restart' = domains_since_restart
    /\ total_restarts' = total_restarts + 1
    /\ cpc' = "collect"
    /\ UNCHANGED <<render_domains, context, old_context, closeIdx, initCount,
                   processed, found, failed_domains>>
    /\ UNCHANGED <<pageCtx, nextPage>>
    /\ UNCHANGED <<mainVars, taskVars, poolVars, writerVars>>
    /\ UNCHANGED <<releases, timeVars, callVars>>

\* old_context.close() returned (every page of that context is closed with
\* it), then restart_manager.record_restart().
CloseOld ==
    /\ cpc = "close_old"
    /\ ctxClosed' = ctxClosed \cup {old_context}
    /\ pageStatus' = [p \in Pages |->
                        IF pageCtx[p] = old_context /\ pageStatus[p] = "open"
                        THEN "closed" ELSE pageStatus[p]]
    /\ domains_since_restart' = 0
    /\ total_restarts' = total_restarts + 1
    /\ cpc' = "collect"
    /\ UNCHANGED <<render_domains, context, old_context, closeIdx, initCount,
                   processed, found, failed_domains>>
    /\ UNCHANGED <<pageCtx, nextPage>>
    /\ UNCHANGED <<mainVars, taskVars, poolVars, writerVars>>
    /\ UNCHANGED <<releases, timeVars, callVars>>

\* The loop is over: PagePool.__aexit__ closes the pool, then context.close(),
\* browser.close() and the return of (found, failed_domains).
Cleanup ==
    /\ cpc = "cleanup"
    /\ pageStatus' = [p \in Pages |->
                        IF pageStatus[p] = "open" THEN "closed" ELSE pageStatus[p]]
    /\ ctxClosed' = ctxClosed \cup {context}
    /\ all_pages' = <<>>
    /\ page_usage' = [p \in Pages |-> -1]
    /\ available' = <<>>
    /\ initialized' = FALSE
    /\ cpc' = "returned"
    /\ UNCHANGED <<render_domains, context, old_context, closeIdx, initCount,
                   processed, found, failed_domains>>
    /\ UNCHANGED <<pageCtx, nextPage, poolContext>>
    /\ UNCHANGED <<mainVars, taskVars, restartVars, writerVars>>
    /\ UNCHANGED <<releases, timeVars, callVars>>

----------------------------------------------------------------------------
(* main (app.py:94-175) *)

\* An end of main whose manifest lists the failures of the render phase only.
FinishMainRenderFailuresOnly(playwright_failed) ==
    /\ wstream' = wstream \o wbuffer
    /\ wbuffer' = <<>>
    /\ manifest' = playwright_failed
    /\ mpc' = "done"

\* writer.close() and the failure manifest (app.py:150-163): the buffer is
\* flushed, all_failed = static_failed + playwright_failed is written.
FinishMain(playwright_failed) ==
    /\ wstream' = wstream \o wbuffer
    /\ wbuffer' = <<>>
    /\ manifest' = static_failed \o playwright_failed
    /\ mpc' = "done"

\* run_static_phase: one iteration of the as_completed loop (app.py:58-70),
\* with the static task of domain d it collects and the tuple r
\* <<logo_url, needs_render>> that task returned.
StaticCollectOf(d, r) ==
    /\ mpc = "static"
    /\ d \notin sdone
    /\ sdone' = sdone \cup {d}
    /\ IF r[1] = "raised"
       THEN /\ mpc' = "raised_static"
            /\ UNCHANGED <<static_found, needs_render, static_failed,
                           writerVars>>
       ELSE /\ mpc' = mpc
            /\ IF r[1] # ""
               THEN /\ static_found' = static_found + 1
                    /\ wbuffer' = WriterWrite(wbuffer, wstream, d)[1]
                    /\ wstream' = WriterWrite(wbuffer, wstream, d)[2]
                    /\ UNCHANGED <<needs_render, static_failed>>
               ELSE /\ IF r[2]
                       THEN /\ needs_render' = Append(needs_render, d)
                            /\ static_failed' = static_failed
                       ELSE /\ static_failed' = Append(static_failed, d)
                            /\ needs_render' = needs_render
                    /\ UNCHANGED <<static_found, writerVars>>
    /\ UNCHANGED manifest
    /\ UNCHANGED <<taskVars, poolVars, browserVars, batchVars, restartVars>>
    /\ UNCHANGED <<releases, timeVars, last_call, domVars, last_sleep,
                   unitVars>>

\* What process_domain_static can return, over every domain string and all
\* answers of the four variants.
StaticReturns ==
    {process_domain_static(valid, w) : valid \in BOOLEAN, w \in Worlds}

\* The iteration for any domain string and any answers of its four variants.
StaticCollect(d) ==
    /\ \E r \in StaticReturns : StaticCollectOf(d, r)
    /\ UNCHANGED <<last_static, gateVars>>

\* run_static_phase returns (the session is closed), and main goes on to the
\* browser launch if needs_render is not empty, to its end otherwise.
StaticReturn ==
    /\ mpc = "static"
    /\ sdone = Domains
    /\ IF needs_render # <<>>
       THEN /\ mpc' = "launch"
            /\ UNCHANGED <<manifest, writerVars>>
       ELSE FinishMain(<<>>)
    /\ UNCHANGED <<sdone, static_found, needs_render, static_failed>>
    /\ UNCHANGED <<taskVars, poolVars, browserVars, batchVars, restartVars>>
    /\ UNCHANGED <<releases, timeVars, callVars>>

\* The pool right after "async with PagePool(context, size=tab_count)":
\* _initialize created tab_count pages in the first context.
FirstPages == [i \in 1 .. PLAYWRIGHT_TABS |-> i]
FirstUsage == [p \in Pages |-> IF p <= PLAYWRIGHT_TABS THEN 0 ELSE -1]
FirstStatus == [p \in Pages |-> IF p <= PLAYWRIGHT_TABS THEN "open" ELSE "none"]
FirstCtx == [p \in Pages |-> IF p <= PLAYWRIGHT_TABS THEN 1 ELSE 0]

\* A launch that creates a process_one task for every domain of the input.
LaunchEveryDomain ==
    /\ mpc = "launch"
    /\ mpc' = "render"
    /\ render_domains' = needs_render
    /\ tpc' = [d \in Domains |-> "delay"]
    /\ sem' = PLAYWRIGHT_TABS
    /\ available' = FirstPages
    /\ all_pages' = FirstPages
    /\ page_usage' = FirstUsage
    /\ initialized' = TRUE
    /\ poolContext' = 1
    /\ pageStatus' = FirstStatus
    /\ pageCtx' = FirstCtx
    /\ nextPage' = PLAYWRIGHT_TABS + 1
    /\ context' = 1
    /\ cpc' = "collect"
    /\ UNCHANGED <<sdone, static_found, needs_render, static_failed,
                   manifest>>
    /\ UNCHANGED <<tpage, tctx, tresult, cause, doneQ, ctxClosed>>
    /\ UNCHANGED <<old_context, closeIdx, initCount, processed, found,
                   failed_domains>>
    /\ UNCHANGED <<restartVars, writerVars>>
    /\ UNCHANGED <<releases, timeVars, callVars>>

\* run_playwright_batch up to the creation of the tasks
\* (browser_manager.py:62-103): firefox is launched, the first context made,
\* the pool entered and one process_one task created per domain.
Launch ==
    /\ mpc = "launch"
    /\ mpc' = "render"
    /\ render_domains' = needs_render
    /\ tpc' = [d \in Domains |-> IF InSeq(needs_render, d) THEN "delay" ELSE tpc[d]]
    /\ sem' = PLAYWRIGHT_TABS
    /\ available' = FirstPages
    /\ all_pages' = FirstPages
    /\ page_usage' = FirstUsage
    /\ initialized' = TRUE
    /\ poolContext' = 1
    /\ pageStatus' = FirstStatus
    /\ pageCtx' = FirstCtx
    /\ nextPage' = PLAYWRIGHT_TABS + 1
    /\ context' = 1
    /\ cpc' = "collect"
    /\ UNCHANGED <<sdone, static_found, needs_render, static_failed,
                   manifest>>
    /\ UNCHANGED <<tpage, tctx, tresult, cause, doneQ, ctxClosed>>
    /\ UNCHANGED <<old_context, closeIdx, initCount, processed, found,
                   failed_domains>>
    /\ UNCHANGED <<restartVars, writerVars>>
    /\ UNCHANGED <<releases, timeVars, callVars>>

\* p.firefox.launch() or the first browser.new_context() raised.
LaunchFails ==
    /\ mpc = "launch"
    /\ Raise("raised_launch")
    /\ UNCHANGED <<mainVars, taskVars, poolVars, browserVars, restartVars,
                   writerVars>>
    /\ UNCHANGED <<releases, timeVars, callVars>>

\* run_playwright_batch returned (found, failed_domains): main flushes the
\* writer and writes the manifest.
MainFinish ==
    /\ mpc = "render"
    /\ cpc = "returned"
    /\ FinishMain(failed_domains)
    /\ UNCHANGED <<sdone, static_found, needs_render, static_failed>>
    /\ UNCHANGED <<taskVars, poolVars, browserVars, batchVars, restartVars>>
    /\ UNCHANGED <<releases, timeVars, callVars>>

\* An exception left run_playwright_batch: nothing in run_playwright_phase
\* or main catches it, so it leaves main before writer.close().
MainCrash ==
    /\ mpc \in {"launch", "render"}
    /\ cpc \in Raised
    /\ mpc' = "crashed"
    /\ UNCHANGED <<sdone, static_found, needs_render, static_failed,
                   manifest>>
    /\ UNCHANGED <<taskVars, poolVars, browserVars, batchVars, restartVars,
                   writerVars>>
    /\ UNCHANGED <<releases, timeVars, callVars>>

----------------------------------------------------------------------------
(* The render phase *)

\* run_playwright_batch called with every domain, after the browser is
\* launched, the pool entered and the tasks created (browser_manager.py:103).
Init ==
    /\ mpc = "render"
    /\ sdone = Domains
    /\ static_found = 0
    /\ needs_render = [i \in 1 .. NumDomains |-> i]
    /\ static_failed = <<>>
    /\ manifest = <<>>
    /\ tpc = [d \in Domains |-> "delay"]
    /\ tpage = [d \in Domains |-> 0]
    /\ tctx = [d \in Domains |-> 0]
    /\ tresult = [d \in Domains |-> "none"]
    /\ cause = [d \in Domains |-> "none"]
    /\ sem = PLAYWRIGHT_TABS
    /\ doneQ = <<>>
    /\ available = FirstPages
    /\ all_pages = FirstPages
    /\ page_usage = FirstUsage
    /\ initialized = TRUE
    /\ poolContext = 1
    /\ pageStatus = FirstStatus
    /\ pageCtx = FirstCtx
    /\ nextPage = PLAYWRIGHT_TABS + 1
    /\ ctxClosed = {}
    /\ render_domains = [i \in 1 .. NumDomains |-> i]
    /\ cpc = "collect"
    /\ context = 1
    /\ old_context = 0
    /\ closeIdx = 0
    /\ initCount = 0
    /\ processed = 0
    /\ found = 0
    /\ failed_domains = <<>>
    /\ domains_since_restart = 0
    /\ total_restarts = 0
    /\ wbuffer = <<>>
    /\ wstream = <<>>
    /\ releases = [p \in Pages |-> 0]
    /\ now = 0
    /\ deadline = [d \in Domains |-> 0]
    /\ last_call = NoCall
    /\ last_static = NoStatic
    /\ rpc = "start"
    /\ rvar = 0
    /\ rlog = <<>>
    /\ rlogo = "none"
    /\ last_sleep = NoSleep
    /\ WriterInMain
    /\ HostNotRead
    /\ NoStaticTasks

Next ==
    \/ \E d \in Domains : Delay(d)
    \/ \E d \in Domains : SemAcquire(d)
    \/ \E d \in Domains : Acquire(d)
    \/ \E d \in Domains : AcquireTimeout(d)
    \/ \E d \in Domains : ProcessDomain(d)
    \/ \E d \in Domains : ReplaceClose(d)
    \/ \E d \in Domains : ReplaceNew(d)
    \/ \E d \in Domains : ClearDone(d)
    \/ Collect
    \/ NewContext
    \/ NewContextFails
    \/ RebuildClosePage
    \/ RebuildCloseEnd
    \/ RebuildInit
    \/ CloseOld
    \/ Cleanup
    \/ MainFinish
    \/ MainCrash

Spec == Init /\ [][Next]_vars

\* run_playwright_batch called with one domain more (written 0), at the
\* moment that domain has been processed on page 1 without a logo, released
\* and collected, while the tasks of the other domains are still in their
\* random delay.
InitBusy ==
    /\ mpc = "render"
    /\ sdone = Domains
    /\ static_found = 0
    /\ needs_render = [i \in 1 .. NumDomains + 1 |-> i - 1]
    /\ static_failed = <<>>
    /\ manifest = <<>>
    /\ tpc = [d \in Domains |-> "delay"]
    /\ tpage = [d \in Domains |-> 0]
    /\ tctx = [d \in Domains |-> 0]
    /\ tresult = [d \in Domains |-> "none"]
    /\ cause = [d \in Domains |-> "none"]
    /\ sem = PLAYWRIGHT_TABS
    /\ doneQ = <<>>
    /\ available = Tail(FirstPages) \o <<1>>
    /\ all_pages = FirstPages
    /\ page_usage = [FirstUsage EXCEPT ![1] = 1]
    /\ initialized = TRUE
    /\ poolContext = 1
    /\ pageStatus = FirstStatus
    /\ pageCtx = FirstCtx
    /\ nextPage = PLAYWRIGHT_TABS + 1
    /\ ctxClosed = {}
    /\ render_domains = [i \in 1 .. NumDomains + 1 |-> i - 1]
    /\ cpc = "collect"
    /\ context = 1
    /\ old_context = 0
    /\ closeIdx = 0
    /\ initCount = 0
    /\ processed = 1
    /\ found = 0
    /\ failed_domains = <<0>>
    /\ domains_since_restart = 1
    /\ total_restarts = 0
    /\ wbuffer = <<>>
    /\ wstream = <<>>
    /\ releases = [p \in Pages |-> IF p = 1 THEN 1 ELSE 0]
    /\ now = 0
    /\ deadline = [d \in Domains |-> 0]
    /\ last_call = NoCall
    /\ last_static = NoStatic
    /\ rpc = "start"
    /\ rvar = 0
    /\ rlog = <<>>
    /\ rlogo = "none"
    /\ last_sleep = NoSleep
    /\ WriterInMain
    /\ HostNotRead
    /\ NoStaticTasks

SpecBusy == InitBusy /\ [][Next]_vars

----------------------------------------------------------------------------
(* The whole run *)

\* main has read the domains and written the header; run_static_phase has
\* created its tasks.  Nothing of the render phase exists yet.
InitMain ==
    /\ mpc = "static"
    /\ sdone = {}
    /\ static_found = 0
    /\ needs_render = <<>>
    /\ static_failed = <<>>
    /\ manifest = <<>>
    /\ tpc = [d \in Domains |-> "idle"]
    /\ tpage = [d \in Domains |-> 0]
    /\ tctx = [d \in Domains |-> 0]
    /\ tresult = [d \in Domains |-> "none"]
    /\ cause = [d \in Domains |-> "none"]
    /\ sem = 0
    /\ doneQ = <<>>
    /\ available = <<>>
    /\ all_pages = <<>>
    /\ page_usage = [p \in Pages |-> -1]
    /\ initialized = FALSE
    /\ poolContext = 0
    /\ pageStatus = [p \in Pages |-> "none"]
    /\ pageCtx = [p \in Pages |-> 0]
    /\ nextPage = 1
    /\ ctxClosed = {}
    /\ render_domains = <<>>
    /\ cpc = "idle"
    /\ context = 0
    /\ old_context = 0
    /\ closeIdx = 0
    /\ initCount = 0
    /\ processed = 0
    /\ found = 0
    /\ failed_domains = <<>>
    /\ domains_since_restart = 0
    /\ total_restarts = 0
    /\ wbuffer = <<>>
    /\ wstream = <<>>
    /\ releases = [p \in Pages |-> 0]
    /\ now = 0
    /\ deadline = [d \in Domains |-> 0]
    /\ last_call = NoCall
    /\ last_static = NoStatic
    /\ rpc = "start"
    /\ rvar = 0
    /\ rlog = <<>>
    /\ rlogo = "none"
    /\ last_sleep = NoSleep
    /\ WriterInMain
    /\ HostNotRead
    /\ NoStaticTasks

NextMain ==
    \/ \E d \in Domains : StaticCollect(d)
    \/ StaticReturn
    \/ Launch
    \/ LaunchFails
    \/ \E d \in Domains : RenderTask(d)
    \/ Collect
    \/ NewContext
    \/ NewContextFails
    \/ RebuildClosePage
    \/ RebuildCloseEnd
    \/ RebuildInit
    \/ CloseOld
    \/ Cleanup
    \/ MainFinish
    \/ MainCrash

SpecMain == InitMain /\ [][NextMain]_vars

----------------------------------------------------------------------------
(* PagePool used directly (page_pool.py): callers without the semaphore of *)
(* process_one and without rotation, on a clock.                           *)

\* A caller calls pool.acquire(): wait_for starts its timer.
CallAcquire(d) ==
    /\ tpc[d] = "idle"
    /\ tpc' = [tpc EXCEPT ![d] = "acquire"]
    /\ deadline' = [deadline EXCEPT ![d] = now + ACQUIRE_TIMEOUT]
    /\ UNCHANGED <<tpage, tctx, tresult, cause, sem, doneQ, now, releases>>
    /\ UNCHANGED callVars
    /\ UNCHANGED <<mainVars, poolVars, browserVars, batchVars, restartVars,
                   writerVars>>

\* A faulty acquire that gives up as soon as it finds the queue empty.
AcquireExpiresAtOnce(d) ==
    /\ tpc[d] = "acquire"
    /\ available = <<>>
    /\ tpc' = [tpc EXCEPT ![d] = "timedout"]
    /\ UNCHANGED <<tpage, tctx, tresult, cause, sem, doneQ, releases, timeVars>>
    /\ UNCHANGED callVars
    /\ UNCHANGED <<mainVars, poolVars, browserVars, batchVars, restartVars,
                   writerVars>>

\* acquire: the timer of wait_for fires while _available.get() still waits;
\* asyncio.TimeoutError is raised to the caller (page_pool.py:84-86).
AcquireExpires(d) ==
    /\ tpc[d] = "acquire"
    /\ available = <<>>
    /\ now >= deadline[d]
    /\ tpc' = [tpc EXCEPT ![d] = "timedout"]
    /\ UNCHANGED <<tpage, tctx, tresult, cause, sem, doneQ, releases, timeVars>>
    /\ UNCHANGED callVars
    /\ UNCHANGED <<mainVars, poolVars, browserVars, batchVars, restartVars,
                   writerVars>>

\* Time passes.  The event loop runs what is ready first: a getter with a
\* page in the queue, a timer that is due.
Tick ==
    /\ now < MaxTime
    /\ \A d \in Domains :
         tpc[d] = "acquire" => (available = <<>> /\ now < deadline[d])
    /\ now' = now + 1
    /\ UNCHANGED <<deadline, releases>>
    /\ UNCHANGED callVars
    /\ UNCHANGED <<mainVars, taskVars, poolVars, browserVars, batchVars,
                   restartVars, writerVars>>

\* A holder calls pool.release(page).
PoolRelease(d) ==
    /\ tpc[d] = "run"
    /\ ReleaseEnter(d, tpage[d], IsClosed(tpage[d]))
    /\ releases' = [releases EXCEPT ![tpage[d]] = @ + 1]
    /\ UNCHANGED <<tpage, tresult, cause, sem, doneQ, timeVars>>
    /\ UNCHANGED callVars
    /\ UNCHANGED <<available, initialized, poolContext>>
    /\ UNCHANGED browserVars
    /\ UNCHANGED <<mainVars, batchVars, restartVars, writerVars>>

\* _replace_page: new_page() returned; the page is tracked and queued and
\* release returns.
PoolReplaceNew(d) ==
    /\ tpc[d] \in {"rp_dead", "rp_new"}
    /\ TrackNewPage(nextPage, tctx[d])
    /\ tpc' = [tpc EXCEPT ![d] = "released"]
    /\ tpage' = [tpage EXCEPT ![d] = 0]
    /\ tctx' = [tctx EXCEPT ![d] = 0]
    /\ UNCHANGED <<initialized, poolContext, ctxClosed>>
    /\ UNCHANGED <<tresult, cause, sem, doneQ, releases, timeVars>>
    /\ UNCHANGED callVars
    /\ UNCHANGED <<mainVars, batchVars, restartVars, writerVars>>

\* release: _clear_page ended, the page is put back and release returns.
PoolClearDone(d) ==
    /\ tpc[d] = "clear"
    /\ available' = Append(available, tpage[d])
    /\ tpc' = [tpc EXCEPT ![d] = "released"]
    /\ tpage' = [tpage EXCEPT ![d] = 0]
    /\ UNCHANGED <<tctx, tresult, cause, sem, doneQ, releases, timeVars>>
    /\ UNCHANGED callVars
    /\ UNCHANGED <<all_pages, page_usage, initialized, poolContext>>
    /\ UNCHANGED <<mainVars, browserVars, batchVars, restartVars, writerVars>>

\* "async with PagePool(context, size)" was entered; no caller has called.
InitPool ==
    /\ mpc = "render"
    /\ sdone = Domains
    /\ static_found = 0
    /\ needs_render = <<>>
    /\ static_failed = <<>>
    /\ manifest = <<>>
    /\ tpc = [d \in Domains |-> "idle"]
    /\ tpage = [d \in Domains |-> 0]
    /\ tctx = [d \in Domains |-> 0]
    /\ tresult = [d \in Domains |-> "none"]
    /\ cause = [d \in Domains |-> "none"]
    /\ sem = PLAYWRIGHT_TABS
    /\ doneQ = <<>>
    /\ available = FirstPages
    /\ all_pages = FirstPages
    /\ page_usage = FirstUsage
    /\ initialized = TRUE
    /\ poolContext = 1
    /\ pageStatus = FirstStatus
    /\ pageCtx = FirstCtx
    /\ nextPage = PLAYWRIGHT_TABS + 1
    /\ ctxClosed = {}
    /\ render_domains = <<>>
    /\ cpc = "idle"
    /\ context = 1
    /\ old_context = 0
    /\ closeIdx = 0
    /\ initCount = 0
    /\ processed = 0
    /\ found = 0
    /\ failed_domains = <<>>
    /\ domains_since_restart = 0
    /\ total_restarts = 0
    /\ wbuffer = <<>>
    /\ wstream = <<>>
    /\ releases = [p \in Pages |-> 0]
    /\ now = 0
    /\ deadline = [d \in Domains |-> 0]
    /\ last_call = NoCall
    /\ last_static = NoStatic
    /\ rpc = "start"
    /\ rvar = 0
    /\ rlog = <<>>
    /\ rlogo = "none"
    /\ last_sleep = NoSleep
    /\ WriterInMain
    /\ HostNotRead
    /\ NoStaticTasks

NextPool ==
    \/ \E d \in Domains : CallAcquire(d)
    \/ \E d \in Domains : Acquire(d)
    \/ \E d \in Domains : AcquireExpires(d)
    \/ Tick
    \/ \E d \in Domains : PoolRelease(d)
    \/ \E d \in Domains : ReplaceClose(d)
    \/ \E d \in Domains : PoolReplaceNew(d)
    \/ \E d \in Domains : PoolClearDone(d)

SpecPool == InitPool /\ [][NextPool]_vars

----------------------------------------------------------------------------
(* run_static_phase alone (app.py:21-82), with the input and the result of *)
(* the task collected last kept for observation.                           *)

\* The iteration of StaticCollect; what process_domain_static was given and
\* what it returned is recorded.
StaticObserved(d) ==
    /\ last_static = NoStatic
    /\ \E valid \in BOOLEAN, w \in Worlds :
         LET r == process_domain_static(valid, w)
         IN  /\ StaticCollectOf(d, r)
             /\ last_static' = [domain |-> d, valid |-> valid, world |-> w,
                                logo_url |-> r[1], needs_render |-> r[2],
                                fetched |-> static_fetches(valid, w)]
    /\ UNCHANGED gateVars

\* The iteration of StaticCollect for a valid domain none of whose variants
\* is reachable by plain HTTP; the input and the result are recorded.
StaticUnreachable(d) ==
    /\ last_static = NoStatic
    /\ LET w == [i \in Variants |-> "unreachable"]
           r == process_domain_static(TRUE, w)
       IN  /\ StaticCollectOf(d, r)
           /\ last_static' = [domain |-> d, valid |-> TRUE, world |-> w,
                              logo_url |-> r[1], needs_render |-> r[2],
                              fetched |-> static_fetches(TRUE, w)]
    /\ UNCHANGED gateVars

InitStatic == InitMain

NextStatic ==
    \/ \E d \in Domains : StaticCollect(d)
    \/ \E d \in Domains : StaticObserved(d)
    \/ StaticReturn

SpecStatic == InitStatic /\ [][NextStatic]_vars

----------------------------------------------------------------------------
(* The whole run with one domain that plain HTTP does not reach *)

NextUnreachable ==
    \/ \E d \in Domains : StaticUnreachable(d)
    \/ NextMain

SpecUnreachable == InitMain /\ [][NextUnreachable]_vars

----------------------------------------------------------------------------
(* main with the sizers of utils/worker.py and with every static task a    *)
(* process of its own: waiting at the sem of run_static_phase, inside it,  *)
(* completed, collected.                                                   *)

Min2(a, b) == IF a <= b THEN a ELSE b
Max2(a, b) == IF a >= b THEN a ELSE b

\* get_optimal_workers()[0] for cpu_count logical CPUs and
\* memory_based_workers, the int(...) of the available memory.
get_optimal_workers(cpu_count, memory_based_workers) ==
    LET cpu_based_workers == cpu_count * 4
        workers == Min2(cpu_based_workers, memory_based_workers)
    IN  Max2(MIN_WORKERS, Min2(workers, MAX_WORKERS))

\* A get_playwright_workers without the upper end of its range.
get_playwright_workers_uncapped(cpu_count, memory_based_workers) ==
    LET cpu_based_workers == Max2(MinPlaywrightWorkers, cpu_count)
        workers == Min2(cpu_based_workers, memory_based_workers)
    IN  Max2(MinPlaywrightWorkers, workers)

\* get_playwright_workers() for cpu_count logical CPUs and
\* memory_based_workers, the int(...) of the available memory.
get_playwright_workers(cpu_count, memory_based_workers) ==
    LET cpu_based_workers == Max2(MinPlaywrightWorkers, cpu_count)
        workers == Min2(cpu_based_workers, memory_based_workers)
    IN  Max2(MinPlaywrightWorkers, Min2(workers, MaxPlaywrightWorkers))

\* main up to the creation of the static tasks (app.py:96-133, 21-56): the
\* two sizers are called, each reading the machine, and run_static_phase
\* makes its semaphore of static_workers slots and one sem_task per domain.
SizeWorkers ==
    /\ mpc = "start"
    /\ \E cpu_count \in 1 .. MaxCpuCount,
          m1 \in 0 .. MaxMemoryWorkers, m2 \in 0 .. MaxMemoryWorkers :
          /\ static_workers' = get_optimal_workers(cpu_count, m1)
          /\ playwright_workers' = get_playwright_workers(cpu_count, m2)
    /\ static_sem' = static_workers'
    /\ spc' = [d \in Domains |-> "sem"]
    /\ mpc' = "static"
    /\ UNCHANGED <<sres, sdoneQ>>
    /\ UNCHANGED <<sdone, static_found, needs_render, static_failed,
                   manifest>>
    /\ UNCHANGED <<taskVars, poolVars, browserVars, batchVars, restartVars,
                   writerVars>>
    /\ UNCHANGED <<releases, timeVars, last_call, last_static, domVars,
                   last_sleep, unitVars>>

\* sem_task: "async with sem" lets the task in.
StaticEnter(d) ==
    /\ mpc = "static"
    /\ spc[d] = "sem"
    /\ static_sem > 0
    /\ static_sem' = static_sem - 1
    /\ spc' = [spc EXCEPT ![d] = "inside"]
    /\ UNCHANGED <<static_workers, playwright_workers, sres, sdoneQ>>
    /\ UNCHANGED <<mainVars, taskVars, poolVars, browserVars, batchVars,
                   restartVars, writerVars>>
    /\ UNCHANGED <<releases, timeVars, last_call, last_static, domVars,
                   last_sleep, unitVars>>

\* sem_task: process_domain_static returned or raised, the semaphore is
\* released and the task is complete.
StaticFinish(d) ==
    /\ mpc = "static"
    /\ spc[d] = "inside"
    /\ \E r \in StaticReturns : sres' = [sres EXCEPT ![d] = r]
    /\ static_sem' = static_sem + 1
    /\ spc' = [spc EXCEPT ![d] = "done"]
    /\ sdoneQ' = Append(sdoneQ, d)
    /\ UNCHANGED <<static_workers, playwright_workers>>
    /\ UNCHANGED <<mainVars, taskVars, poolVars, browserVars, batchVars,
                   restartVars, writerVars>>
    /\ UNCHANGED <<releases, timeVars, last_call, last_static, domVars,
                   last_sleep, unitVars>>

\* A loop over the static tasks that takes the latest completion first.
StaticTakeLatest ==
    /\ sdoneQ # <<>>
    /\ StaticCollectOf(sdoneQ[Len(sdoneQ)], sres[sdoneQ[Len(sdoneQ)]])
    /\ sdoneQ' = SubSeq(sdoneQ, 1, Len(sdoneQ) - 1)
    /\ UNCHANGED <<static_workers, playwright_workers, static_sem, spc, sres>>
    /\ UNCHANGED last_static

\* One iteration of the as_completed loop of run_static_phase: the task
\* that completed first is taken.
StaticTake ==
    /\ sdoneQ # <<>>
    /\ StaticCollectOf(Head(sdoneQ), sres[Head(sdoneQ)])
    /\ sdoneQ' = Tail(sdoneQ)
    /\ UNCHANGED <<static_workers, playwright_workers, static_sem, spc, sres>>
    /\ UNCHANGED last_static

InitSizer ==
    /\ mpc = "start"
    /\ sdone = {}
    /\ static_found = 0
    /\ needs_render = <<>>
    /\ static_failed = <<>>
    /\ manifest = <<>>
    /\ tpc = [d \in Domains |-> "idle"]
    /\ tpage = [d \in Domains |-> 0]
    /\ tctx = [d \in Domains |-> 0]
    /\ tresult = [d \in Domains |-> "none"]
    /\ cause = [d \in Domains |-> "none"]
    /\ sem = 0
    /\ doneQ = <<>>
    /\ available = <<>>
    /\ all_pages = <<>>
    /\ page_usage = [p \in Pages |-> -1]
    /\ initialized = FALSE
    /\ poolContext = 0
    /\ pageStatus = [p \in Pages |-> "none"]
    /\ pageCtx = [p \in Pages |-> 0]
    /\ nextPage = 1
    /\ ctxClosed = {}
    /\ render_domains = <<>>
    /\ cpc = "idle"
    /\ context = 0
    /\ old_context = 0
    /\ closeIdx = 0
    /\ initCount = 0
    /\ processed = 0
    /\ found = 0
    /\ failed_domains = <<>>
    /\ domains_since_restart = 0
    /\ total_restarts = 0
    /\ wbuffer = <<>>
    /\ wstream = <<>>
    /\ releases = [p \in Pages |-> 0]
    /\ now = 0
    /\ deadline = [d \in Domains |-> 0]
    /\ last_call = NoCall
    /\ last_static = NoStatic
    /\ rpc = "start"
    /\ rvar = 0
    /\ rlog = <<>>
    /\ rlogo = "none"
    /\ last_sleep = NoSleep
    /\ WriterInMain
    /\ HostNotRead
    /\ NoStaticTasks

\* Both phases with the tasks as processes, the render phase before its
\* collection loop takes a result.  No context is rotated then, the pool
\* keeps as many pages as the gate has slots, and acquire never waits.
NextSizer ==
    \/ SizeWorkers
    \/ \E d \in Domains : StaticEnter(d)
    \/ \E d \in Domains : StaticFinish(d)
    \/ StaticTake
    \/ StaticReturn
    \/ Launch
    \/ \E d \in Domains : Delay(d)
    \/ \E d \in Domains : SemAcquire(d)
    \/ \E d \in Domains : Acquire(d)
    \/ \E d \in Domains : ProcessDomain(d)
    \/ \E d \in Domains : ReplaceClose(d)
    \/ \E d \in Domains : ReplaceNew(d)
    \/ \E d \in Domains : ClearDone(d)

SpecSizer == InitSizer /\ [][NextSizer]_vars

----------------------------------------------------------------------------
(* The whole run with the completion of a task and its collection as       *)
(* separate steps in both phases.                                          *)

\* A whole process_one as one step, as RenderTask, with what the task ended
\* with kept and not how it came to it.
RenderTaskEnds(d) ==
    /\ Alive
    /\ tpc[d] = "delay"
    /\ \E o \in Outcomes \cup {"acquire_timeout"} :
         tresult' = [tresult EXCEPT ![d] = TaskResult(o)]
    /\ tpc' = [tpc EXCEPT ![d] = "done"]
    /\ doneQ' = Append(doneQ, d)
    /\ UNCHANGED <<tpage, tctx, sem, cause>>
    /\ UNCHANGED <<mainVars, poolVars, browserVars, batchVars, restartVars,
                   writerVars>>
    /\ UNCHANGED <<releases, timeVars, callVars>>

\* main on a machine with the most CPUs and memory, where the static gate
\* has a slot for every domain: run_static_phase has created its tasks and
\* each has passed "async with sem" without waiting.
InitOrder ==
    /\ mpc = "static"
    /\ sdone = {}
    /\ static_found = 0
    /\ needs_render = <<>>
    /\ static_failed = <<>>
    /\ manifest = <<>>
    /\ tpc = [d \in Domains |-> "idle"]
    /\ tpage = [d \in Domains |-> 0]
    /\ tctx = [d \in Domains |-> 0]
    /\ tresult = [d \in Domains |-> "none"]
    /\ cause = [d \in Domains |-> "none"]
    /\ sem = 0
    /\ doneQ = <<>>
    /\ available = <<>>
    /\ all_pages = <<>>
    /\ page_usage = [p \in Pages |-> -1]
    /\ initialized = FALSE
    /\ poolContext = 0
    /\ pageStatus = [p \in Pages |-> "none"]
    /\ pageCtx = [p \in Pages |-> 0]
    /\ nextPage = 1
    /\ ctxClosed = {}
    /\ render_domains = <<>>
    /\ cpc = "idle"
    /\ context = 0
    /\ old_context = 0
    /\ closeIdx = 0
    /\ initCount = 0
    /\ processed = 0
    /\ found = 0
    /\ failed_domains = <<>>
    /\ domains_since_restart = 0
    /\ total_restarts = 0
    /\ wbuffer = <<>>
    /\ wstream = <<>>
    /\ releases = [p \in Pages |-> 0]
    /\ now = 0
    /\ deadline = [d \in Domains |-> 0]
    /\ last_call = NoCall
    /\ last_static = NoStatic
    /\ rpc = "start"
    /\ rvar = 0
    /\ rlog = <<>>
    /\ rlogo = "none"
    /\ last_sleep = NoSleep
    /\ WriterInMain
    /\ HostNotRead
    /\ static_workers = get_optimal_workers(MaxCpuCount, MaxMemoryWorkers)
    /\ playwright_workers =
          get_playwright_workers(MaxCpuCount, MaxMemoryWorkers)
    /\ static_workers >= NumDomains
    /\ static_sem = static_workers - NumDomains
    /\ spc = [d \in Domains |-> "inside"]
    /\ sres = [d \in Domains |-> <<"none", FALSE>>]
    /\ sdoneQ = <<>>

NextOrder ==
    \/ \E d \in Domains : StaticFinish(d)
    \/ StaticTake
    \/ StaticReturn
    \/ Launch
    \/ LaunchFails
    \/ \E d \in Domains : RenderTaskEnds(d)
    \/ Collect
    \/ NewContext
    \/ NewContextFails
    \/ RebuildClosePage
    \/ RebuildCloseEnd
    \/ RebuildInit
    \/ CloseOld
    \/ Cleanup
    \/ MainFinish
    \/ MainCrash

SpecOrder == InitOrder /\ [][NextOrder]_vars

----------------------------------------------------------------------------
(* IncrementalCSVWriter called directly (csv_writer.py:8-71): the header,   *)
(* then write, flush and close in any order.  The stream of this            *)
(* specification begins with the header row.                                *)

\* the row write_header writes
HeaderRow == 0

\* _flush_buffer: the rows of the buffer go to the stream, the buffer is
\* cleared.  Yields <<buffer, stream>>.
FlushBuffer(buf, str) == <<(<<>>), str \o buf>>

\* write_header()
WriteHeader ==
    /\ wpc = "new"
    /\ wstream' = Append(wstream, HeaderRow)
    /\ wpc' = "open"
    /\ UNCHANGED <<wbuffer, wcalls>>
    /\ UNCHANGED <<mainVars, taskVars, poolVars, browserVars, batchVars,
                   restartVars, releases, timeVars, last_call, last_static,
                   domVars, last_sleep, gateVars, host_cpu, host_memory,
                   last_sizing>>

\* await write(domain, logo_url)
WriterWriteCall(rec) ==
    /\ wpc \in {"open", "closed"}
    /\ Len(wcalls) < MaxWrites
    /\ wcalls' = Append(wcalls, rec)
    /\ wbuffer' = WriterWrite(wbuffer, wstream, rec)[1]
    /\ wstream' = WriterWrite(wbuffer, wstream, rec)[2]
    /\ wpc' = "open"
    /\ UNCHANGED <<mainVars, taskVars, poolVars, browserVars, batchVars,
                   restartVars, releases, timeVars, last_call, last_static,
                   domVars, last_sleep, gateVars, host_cpu, host_memory,
                   last_sizing>>

\* await flush()
WriterFlush ==
    /\ wpc = "open"
    /\ wbuffer # <<>>
    /\ wbuffer' = FlushBuffer(wbuffer, wstream)[1]
    /\ wstream' = FlushBuffer(wbuffer, wstream)[2]
    /\ UNCHANGED <<wcalls, wpc>>
    /\ UNCHANGED <<mainVars, taskVars, poolVars, browserVars, batchVars,
                   restartVars, releases, timeVars, last_call, last_static,
                   domVars, last_sleep, gateVars, host_cpu, host_memory,
                   last_sizing>>

\* await close()
WriterClose ==
    /\ wpc = "open"
    /\ wbuffer' = FlushBuffer(wbuffer, wstream)[1]
    /\ wstream' = FlushBuffer(wbuffer, wstream)[2]
    /\ wpc' = "closed"
    /\ UNCHANGED wcalls
    /\ UNCHANGED <<mainVars, taskVars, poolVars, browserVars, batchVars,
                   restartVars, releases, timeVars, last_call, last_static,
                   domVars, last_sleep, gateVars, host_cpu, host_memory,
                   last_sizing>>

\* IncrementalCSVWriter(sys.stdout, buffer_size) has been constructed.
InitWriter ==
    /\ mpc = "static"
    /\ sdone = {}
    /\ static_found = 0
    /\ needs_render = <<>>
    /\ static_failed = <<>>
    /\ manifest = <<>>
    /\ tpc = [d \in Domains |-> "idle"]
    /\ tpage = [d \in Domains |-> 0]
    /\ tctx = [d \in Domains |-> 0]
    /\ tresult = [d \in Domains |-> "none"]
    /\ cause = [d \in Domains |-> "none"]
    /\ sem = 0
    /\ doneQ = <<>>
    /\ available = <<>>
    /\ all_pages = <<>>
    /\ page_usage = [p \in Pages |-> -1]
    /\ initialized = FALSE
    /\ poolContext = 0
    /\ pageStatus = [p \in Pages |-> "none"]
    /\ pageCtx = [p \in Pages |-> 0]
    /\ nextPage = 1
    /\ ctxClosed = {}
    /\ render_domains = <<>>
    /\ cpc = "idle"
    /\ context = 0
    /\ old_context = 0
    /\ closeIdx = 0
    /\ initCount = 0
    /\ processed = 0
    /\ found = 0
    /\ failed_domains = <<>>
    /\ domains_since_restart = 0
    /\ total_restarts = 0
    /\ wbuffer = <<>>
    /\ wstream = <<>>
    /\ releases = [p \in Pages |-> 0]
    /\ now = 0
    /\ deadline = [d \in Domains |-> 0]
    /\ last_call = NoCall
    /\ last_static = NoStatic
    /\ rpc = "start"
    /\ rvar = 0
    /\ rlog = <<>>
    /\ rlogo = "none"
    /\ last_sleep = NoSleep
    /\ NoStaticTasks
    /\ wcalls = <<>>
    /\ wpc = "new"
    /\ HostNotRead

NextWriter ==
    \/ WriteHeader
    \/ \E rec \in Domains : WriterWriteCall(rec)
    \/ WriterFlush
    \/ WriterClose

SpecWriter == InitWriter /\ [][NextWriter]_vars

----------------------------------------------------------------------------
(* The sizers of utils/worker.py called directly on a host with any number *)
(* of CPUs and any available memory.                                       *)

\* psutil.cpu_count(logical=True) or 4
cpu_count_or_default(c) == IF c = 0 THEN 4 ELSE c

\* int((memory_gb * 0.75) * 1024 / MEMORY_PER_WORKER), the memory in MB
optimal_memory_based(mb) == (mb * 3) \div (4 * MEMORY_PER_WORKER)

\* int((memory_gb * 0.6) * 1024 / PLAYWRIGHT_MEMORY_PER_WORKER), the memory
\* in MB
playwright_memory_based(mb) == (mb * 3) \div (5 * PLAYWRIGHT_MEMORY_PER_WORKER)

SizerFrame ==
    UNCHANGED <<mainVars, taskVars, poolVars, browserVars, batchVars,
                restartVars, writerVars, releases, timeVars, last_call,
                last_static, domVars, last_sleep, gateVars, wcalls, wpc,
                host_cpu, host_memory>>

\* psutil.virtual_memory() raises: the memory of the host cannot be read.
MemoryUnreadable == host_memory < 0

\* The sizer was left by the exception of psutil: it has no handler.
SizerRaised(which) ==
    [sizer |-> which, raised |-> TRUE, cpu_count |-> 0,
     cpu_based_workers |-> 0, memory_based_workers |-> 0, workers |-> 0]

\* get_optimal_workers() is called.
CallOptimalWorkers ==
    /\ LET c == cpu_count_or_default(host_cpu)
           m == optimal_memory_based(host_memory)
       IN  last_sizing' =
             IF MemoryUnreadable
             THEN SizerRaised("optimal")
             ELSE [sizer |-> "optimal", raised |-> FALSE, cpu_count |-> c,
                   cpu_based_workers |-> c * 4,
                   memory_based_workers |-> m,
                   workers |-> get_optimal_workers(c, m)]
    /\ SizerFrame

\* get_playwright_workers() is called.
CallPlaywrightWorkers ==
    /\ LET c == cpu_count_or_default(host_cpu)
           m == playwright_memory_based(host_memory)
       IN  last_sizing' =
             IF MemoryUnreadable
             THEN SizerRaised("playwright")
             ELSE [sizer |-> "playwright", raised |-> FALSE, cpu_count |-> c,
                   cpu_based_workers |-> Max2(MinPlaywrightWorkers, c),
                   memory_based_workers |-> m,
                   workers |-> get_playwright_workers(c, m)]
    /\ SizerFrame

InitWorkers ==
    /\ mpc = "start"
    /\ sdone = {}
    /\ static_found = 0
    /\ needs_render = <<>>
    /\ static_failed = <<>>
    /\ manifest = <<>>
    /\ tpc = [d \in Domains |-> "idle"]
    /\ tpage = [d \in Domains |-> 0]
    /\ tctx = [d \in Domains |-> 0]
    /\ tresult = [d \in Domains |-> "none"]
    /\ cause = [d \in Domains |-> "none"]
    /\ sem = 0
    /\ doneQ = <<>>
    /\ available = <<>>
    /\ all_pages = <<>>
    /\ page_usage = [p \in Pages |-> -1]
    /\ initialized = FALSE
    /\ poolContext = 0
    /\ pageStatus = [p \in Pages |-> "none"]
    /\ pageCtx = [p \in Pages |-> 0]
    /\ nextPage = 1
    /\ ctxClosed = {}
    /\ render_domains = <<>>
    /\ cpc = "idle"
    /\ context = 0
    /\ old_context = 0
    /\ closeIdx = 0
    /\ initCount = 0
    /\ processed = 0
    /\ found = 0
    /\ failed_domains = <<>>
    /\ domains_since_restart = 0
    /\ total_restarts = 0
    /\ wbuffer = <<>>
    /\ wstream = <<>>
    /\ releases = [p \in Pages |-> 0]
    /\ now = 0
    /\ deadline = [d \in Domains |-> 0]
    /\ last_call = NoCall
    /\ last_static = NoStatic
    /\ rpc = "start"
    /\ rvar = 0
    /\ rlog = <<>>
    /\ rlogo = "none"
    /\ last_sleep = NoSleep
    /\ NoStaticTasks
    /\ wcalls = <<>>
    /\ wpc = "new"
    /\ host_cpu \in 0 .. MaxHostCpu
    /\ host_memory \in -1 .. MaxHostMemory
    /\ last_sizing = NoSizing

NextWorkers ==
    \/ CallOptimalWorkers
    \/ CallPlaywrightWorkers

SpecWorkers == InitWorkers /\ [][NextWorkers]_vars

----------------------------------------------------------------------------
(* The batch of SpecBusy with a whole process_one as one step: the tasks    *)
(* complete in any order and at any moment of the collection loop and of a  *)
(* rotation.                                                                *)

InitBatch == InitBusy

NextBatch ==
    \/ \E d \in Domains : RenderTaskEnds(d)
    \/ Collect
    \/ NewContext
    \/ NewContextFails
    \/ RebuildClosePage
    \/ RebuildCloseEnd
    \/ RebuildInit
    \/ CloseOld
    \/ Cleanup
    \/ MainFinish
    \/ MainCrash

SpecBatch == InitBatch /\ [][NextBatch]_vars

----------------------------------------------------------------------------
(* The process_one tasks of a batch whose browser fails under release():    *)
(* closing the old page or creating the replacement raises.                 *)

\* _replace_page: old_page.close() raised; the handler of _replace_page
\* swallows the exception, no replacement is made, release() returns.
ReplaceCloseFails(d) ==
    /\ Alive
    /\ tpc[d] = "rp_close"
    /\ Finish(d)
    /\ UNCHANGED <<tresult, cause>>
    /\ UNCHANGED <<poolVars, browserVars>>
    /\ UNCHANGED <<mainVars, batchVars, restartVars, writerVars>>
    /\ UNCHANGED <<releases, timeVars, callVars>>

\* A release() that lets the exception of new_page() out: process_one ends
\* with it in place of its result.
ReplaceNewFailsRaising(d) ==
    /\ Alive
    /\ tpc[d] \in {"rp_dead", "rp_new"}
    /\ tresult' = [tresult EXCEPT ![d] = "raised"]
    /\ Finish(d)
    /\ UNCHANGED cause
    /\ UNCHANGED <<poolVars, browserVars>>
    /\ UNCHANGED <<mainVars, batchVars, restartVars, writerVars>>
    /\ UNCHANGED <<releases, timeVars, callVars>>

\* _replace_page: self.context.new_page() raised; the handler of
\* _replace_page swallows the exception, release() returns.
ReplaceNewFails(d) ==
    /\ Alive
    /\ tpc[d] \in {"rp_dead", "rp_new"}
    /\ Finish(d)
    /\ UNCHANGED <<tresult, cause>>
    /\ UNCHANGED <<poolVars, browserVars>>
    /\ UNCHANGED <<mainVars, batchVars, restartVars, writerVars>>
    /\ UNCHANGED <<releases, timeVars, callVars>>

InitRelease == Init

NextRelease ==
    \/ \E d \in Domains : Delay(d)
    \/ \E d \in Domains : SemAcquire(d)
    \/ \E d \in Domains : Acquire(d)
    \/ \E d \in Domains : AcquireTimeout(d)
    \/ \E d \in Domains : ProcessDomain(d)
    \/ \E d \in Domains : ReplaceClose(d)
    \/ \E d \in Domains : ReplaceCloseFails(d)
    \/ \E d \in Domains : ReplaceNew(d)
    \/ \E d \in Domains : ReplaceNewFails(d)
    \/ \E d \in Domains : ClearDone(d)

SpecRelease == InitRelease /\ [][NextRelease]_vars

----------------------------------------------------------------------------
(* The process_one tasks of a batch before the collection loop takes its   *)
(* first result, with the sleep of random_delay drawn and recorded.        *)

\* A random_delay that draws beyond REQUEST_DELAY_MAX.
random_delay_beyond_max == REQUEST_DELAY_MIN .. REQUEST_DELAY_MAX + 1

\* random_delay: random.randint(REQUEST_DELAY_MIN, REQUEST_DELAY_MAX), both
\* ends included; the milliseconds asyncio.sleep is called with.
random_delay == REQUEST_DELAY_MIN .. REQUEST_DELAY_MAX

\* await random_delay() of process_one, with the sleep drawn.
TimedDelay(d) ==
    /\ Alive
    /\ tpc[d] = "delay"
    /\ \E delay_ms \in random_delay :
          last_sleep' = delay_ms
    /\ tpc' = [tpc EXCEPT ![d] = "sem"]
    /\ UNCHANGED <<tpage, tctx, tresult, cause, sem, doneQ>>
    /\ UNCHANGED <<mainVars, poolVars, browserVars, batchVars, restartVars,
                   writerVars>>
    /\ UNCHANGED <<releases, timeVars, last_call, last_static, domVars,
                   gateVars, unitVars>>

InitTasks == Init

\* No context is rotated before the first result is taken: the pool keeps as
\* many pages as the gate has slots, and acquire never waits.

NextTasks ==
    \/ \E d \in Domains : TimedDelay(d)
    \/ \E d \in Domains : SemAcquire(d)
    \/ \E d \in Domains : Acquire(d)
    \/ \E d \in Domains : ProcessDomain(d)
    \/ \E d \in Domains : ReplaceClose(d)
    \/ \E d \in Domains : ReplaceNew(d)
    \/ \E d \in Domains : ClearDone(d)

SpecTasks == InitTasks /\ [][NextTasks]_vars

----------------------------------------------------------------------------
(* process_domain called directly on a page (domain_processor.py:30-121).  *)
(* Every await on the page is a step; what the page answers is chosen by   *)
(* the step.                                                               *)

\* The rest of the model stands still.
DomFrame ==
    UNCHANGED <<mainVars, taskVars, poolVars, browserVars, batchVars,
                restartVars, writerVars, releases, timeVars, last_call,
                last_static, last_sleep, gateVars,
                unitVars>>

\* _process_url returned "": the for loop of process_domain goes to the next
\* variant and calls page.goto, or returns (domain, "") after the last one.
NextVariant ==
    IF rvar + 1 \in Variants
    THEN rvar' = rvar + 1 /\ rpc' = "goto" /\ rlogo' = rlogo
    ELSE rvar' = rvar /\ rpc' = "done" /\ rlogo' = ""

\* _process_url returned a logo: process_domain returns (domain, logo).
ReturnLogo == rvar' = rvar /\ rpc' = "done" /\ rlogo' = "logo"

\* process_domain up to the first page.goto: a string sanitize_domain rejects
\* is returned without a logo at once.
DomStart ==
    /\ rpc = "start"
    /\ \E valid \in BOOLEAN :
         IF valid
         THEN rvar' = 1 /\ rpc' = "goto" /\ rlogo' = rlogo
         ELSE rvar' = rvar /\ rpc' = "done" /\ rlogo' = ""
    /\ rlog' = rlog
    /\ DomFrame

\* A faulty _process_url that navigates a second time after a timeout.
GotoRetrying ==
    /\ rpc = "goto"
    /\ \E res \in {"ok", "timeout", "error"} :
         /\ rlog' = Append(rlog, <<rvar, "goto", res>>)
         /\ IF res = "ok"
            THEN rpc' = "delay" /\ UNCHANGED <<rvar, rlogo>>
            ELSE IF res = "timeout"
                 THEN UNCHANGED <<rpc, rvar, rlogo>>
                 ELSE NextVariant
    /\ Len(rlog) < 2 * Cardinality(Variants)
    /\ DomFrame

\* page.goto ended: it returned, or raised PlaywrightTimeout or another
\* exception, after which _process_url returns "".
Goto ==
    /\ rpc = "goto"
    /\ \E res \in {"ok", "timeout", "error"} :
         /\ rlog' = Append(rlog, <<rvar, "goto", res>>)
         /\ IF res = "ok"
            THEN rpc' = "delay" /\ UNCHANGED <<rvar, rlogo>>
            ELSE NextVariant
    /\ DomFrame

\* page.wait_for_timeout(POST_NAV_DELAY) ended; an exception of it is
\* swallowed.  detect_captcha is called.
PostNavDelay ==
    /\ rpc = "delay"
    /\ rpc' = "detect"
    /\ UNCHANGED <<rvar, rlog, rlogo>>
    /\ DomFrame

\* A faulty _process_url that goes on to the extraction on a challenge page.
DetectIgnoringChallenge ==
    /\ rpc = "detect"
    /\ \E res \in {"positive", "negative", "error"} :
         rlog' = Append(rlog, <<rvar, "detect", res>>)
    /\ rpc' = "cookies"
    /\ UNCHANGED <<rvar, rlogo>>
    /\ DomFrame

\* detect_captcha ended: a challenge was seen ("positive": _process_url
\* returns ""), none was seen, or the inspection failed ("error":
\* detect_captcha swallows it and answers False, and _process_url swallows
\* what it raises).
Detect ==
    /\ rpc = "detect"
    /\ \E res \in {"positive", "negative", "error"} :
         /\ rlog' = Append(rlog, <<rvar, "detect", res>>)
         /\ IF res = "positive"
            THEN NextVariant
            ELSE rpc' = "cookies" /\ UNCHANGED <<rvar, rlogo>>
    /\ DomFrame

\* A faulty _process_url that gives the variant up when the cookie handling
\* fails.
HandleCookiesAborting ==
    /\ rpc = "cookies"
    /\ \E res \in {"ok", "error"} :
         /\ rlog' = Append(rlog, <<rvar, "cookies", res>>)
         /\ IF res = "ok"
            THEN rpc' = "overlays" /\ UNCHANGED <<rvar, rlogo>>
            ELSE NextVariant
    /\ DomFrame

\* handle_cookies ended: on its return dismiss_overlays is called, on an
\* exception the handler skips to extract_logo.
HandleCookies ==
    /\ rpc = "cookies"
    /\ \E res \in {"ok", "error"} :
         /\ rlog' = Append(rlog, <<rvar, "cookies", res>>)
         /\ rpc' = IF res = "ok" THEN "overlays" ELSE "extract"
    /\ UNCHANGED <<rvar, rlogo>>
    /\ DomFrame

\* dismiss_overlays ended, by return or by an exception that is swallowed:
\* extract_logo is called.
DismissOverlays ==
    /\ rpc = "overlays"
    /\ \E res \in {"ok", "error"} :
         rlog' = Append(rlog, <<rvar, "overlays", res>>)
    /\ rpc' = "extract"
    /\ UNCHANGED <<rvar, rlogo>>
    /\ DomFrame

\* extract_logo ended: with a logo, which _process_url and process_domain
\* return, or with "" (its own errors included), after which extract_favicon
\* is called.
ExtractLogo ==
    /\ rpc = "extract"
    /\ \E res \in {"logo", "none"} :
         /\ rlog' = Append(rlog, <<rvar, "extract", res>>)
         /\ IF res = "logo"
            THEN ReturnLogo
            ELSE rpc' = "favicon" /\ UNCHANGED <<rvar, rlogo>>
    /\ DomFrame

\* extract_favicon ended: with an icon, which is returned as the logo, or
\* with "", which _process_url returns.
ExtractFavicon ==
    /\ rpc = "favicon"
    /\ \E res \in {"logo", "none"} :
         /\ rlog' = Append(rlog, <<rvar, "favicon", res>>)
         /\ IF res = "logo" THEN ReturnLogo ELSE NextVariant
    /\ DomFrame

InitDomain == Init

NextDomain ==
    \/ DomStart
    \/ Goto
    \/ PostNavDelay
    \/ Detect
    \/ HandleCookies
    \/ DismissOverlays
    \/ ExtractLogo
    \/ ExtractFavicon

SpecDomain == InitDomain /\ [][NextDomain]_vars

----------------------------------------------------------------------------
(* The whole run with one domain whose string sanitize_domain rejects; once *)
(* main has ended, process_domain is called directly on any string and is  *)
(* followed up to its first page.goto.                                     *)

\* What the servers would answer for the rejected string, were it fetched.
RejectedWorlds ==
    {[i \in Variants |-> "logo"], [i \in Variants |-> "unreachable"]}

\* The iteration of StaticCollect for a domain whose string sanitize_domain
\* rejects; the input and the result are recorded.
StaticRejected(d) ==
    /\ last_static = NoStatic
    /\ \E w \in RejectedWorlds :
         LET r == process_domain_static(FALSE, w)
         IN  /\ StaticCollectOf(d, r)
             /\ last_static' = [domain |-> d, valid |-> FALSE, world |-> w,
                                logo_url |-> r[1], needs_render |-> r[2],
                                fetched |-> static_fetches(FALSE, w)]
    /\ UNCHANGED gateVars

\* process_domain called directly, once main has ended.
DomStartAfterMain ==
    /\ mpc \in {"done", "crashed"}
    /\ DomStart

NextInvalid ==
    \/ \E d \in Domains : StaticRejected(d)
    \/ NextMain
    \/ DomStartAfterMain

SpecInvalid == InitMain /\ [][NextInvalid]_vars

----------------------------------------------------------------------------
(* RestartManager used directly: any sequence of increment, should_restart *)
(* and record_restart calls on one instance.                               *)

\* The calls are counted up to these values.
MaxCount == 2 * RESTART_EVERY_N_DOMAINS + 1
MaxRestarts == RESTART_EVERY_N_DOMAINS + 1

\* increment()
Increment ==
    /\ domains_since_restart < MaxCount
    /\ domains_since_restart' = domains_since_restart + 1
    /\ UNCHANGED <<total_restarts, last_call>>
    /\ UNCHANGED <<mainVars, taskVars, poolVars, browserVars, batchVars,
                   writerVars, releases, timeVars, last_static,
                   domVars, last_sleep, gateVars, unitVars>>

\* should_restart() while the memory of the process is above the threshold
\* (memHigh) or not.
ShouldRestart ==
    /\ \E memHigh \in BOOLEAN :
         last_call' = [count |-> domains_since_restart,
                       memHigh |-> memHigh,
                       read |-> reads_memory(domains_since_restart),
                       answer |-> should_restart(domains_since_restart,
                                                 memHigh)]
    /\ UNCHANGED <<mainVars, taskVars, poolVars, browserVars, batchVars,
                   restartVars, writerVars, releases, timeVars, last_static,
                   domVars, last_sleep, gateVars, unitVars>>

\* A faulty record_restart() that counts the rotation and keeps the counter.
RecordRestartWithoutReset ==
    /\ total_restarts < MaxRestarts
    /\ total_restarts' = total_restarts + 1
    /\ UNCHANGED <<domains_since_restart, last_call>>
    /\ UNCHANGED <<mainVars, taskVars, poolVars, browserVars, batchVars,
                   writerVars, releases, timeVars, last_static,
                   domVars, last_sleep, gateVars, unitVars>>

\* record_restart()
RecordRestart ==
    /\ total_restarts < MaxRestarts
    /\ domains_since_restart' = 0
    /\ total_restarts' = total_restarts + 1
    /\ UNCHANGED last_call
    /\ UNCHANGED <<mainVars, taskVars, poolVars, browserVars, batchVars,
                   writerVars, releases, timeVars, last_static,
                   domVars, last_sleep, gateVars, unitVars>>

\* RestartManager.__init__: both counters are 0.
InitRestart == Init

NextRestart ==
    \/ Increment
    \/ ShouldRestart
    \/ RecordRestart

SpecRestart == InitRestart /\ [][NextRestart]_vars

----------------------------------------------------------------------------
(* Properties of the render resource pool *)

CheckedOut == {d \in Domains : Holding(d)}
LiveHandles == {p \in Pages : pageStatus[p] = "open"}
\* rebuild() has been called and has not returned
InRebuild == cpc \in {"rebuild_close", "rebuild_init"}
\* the render phase is running: the pool is entered and not yet left
PoolInUse == cpc \in {"collect", "new_context", "rebuild_close", "rebuild_init",
                      "close_old", "cleanup"}

\* C1: outside a rebuild window, the handles checked out to tasks plus the
\* handles in the available queue are exactly the configured pool size.
C1_PoolSizeInvariant ==
    (PoolInUse /\ ~InRebuild) =>
        Cardinality(CheckedOut) + Len(available) = PLAYWRIGHT_TABS

\* C2: the number of live (open) handles never exceeds the pool size.
C2_LiveHandlesBounded == Cardinality(LiveHandles) <= PLAYWRIGHT_TABS

\* C3: a handle is at most once in the available queue, a checked-out handle
\* is not in the queue, and no two tasks hold the same handle.
C3_NoSharedHandle ==
    /\ \A i, j \in 1 .. Len(available) : i # j => available[i] # available[j]
    /\ \A d \in Domains : Holding(d) => ~InSeq(available, tpage[d])
    /\ \A d, e \in Domains :
         (d # e /\ Holding(d) /\ Holding(e)) => tpage[d] # tpage[e]

\* C3 witness: two tasks hold handles at once, after a third task has
\* released the handle it held.
C3_Witness ==
    \E d, e, f \in Domains :
        /\ d # e /\ tpc[d] = "run" /\ tpc[e] = "run"
        /\ tpc[f] = "done" /\ tresult[f] # "raised"

\* C4: a step of the rotation never closes a handle that a task holds open,
\* and a context is closed only when no task holds one of its handles.
\* (Every step of a holder changes its tpc, so a step that leaves tpc[d]
\* alone is a step of someone else.)
C4_RotationSparesInFlight ==
    [][/\ \A d \in Domains :
            (Holding(d) /\ tpc'[d] = tpc[d] /\ pageStatus[tpage[d]] = "open")
                => pageStatus'[tpage[d]] = "open"
       /\ ctxClosed' # ctxClosed =>
            \A d \in Domains :
                Holding(d) => pageCtx[tpage[d]] \notin ctxClosed']_vars

\* C5: from the start of rebuild(new_context) on, every handle acquire
\* returns is bound to new_context (context is rebound in the step that
\* calls rebuild).
C5_AcquireAfterRebuildIsNew ==
    [][\A d \in Domains :
         (tpc[d] = "acquire" /\ tpc'[d] = "run"
          /\ cpc # "new_context")
            => pageCtx[tpage'[d]] = context]_vars

\* C6: when rebuild(new_context) has just returned, the queue holds exactly
\* pool-size handles and every tracked handle is bound to new_context.
C6_RebuildRestoresPool ==
    cpc = "close_old" =>
        /\ Len(available) = PLAYWRIGHT_TABS
        /\ \A i \in 1 .. Len(all_pages) : pageCtx[all_pages[i]] = context

\* C7: a task whose acquire timed out is recorded as a failed domain and the
\* batch goes on.
C7_AcquireTimeoutIsDomainFailure ==
    /\ cpc # "raised_task"
    /\ \A d \in Domains :
         (tresult[d] = "raised" /\ tpc[d] = "done" /\ ~InSeq(doneQ, d))
            => InSeq(failed_domains, d)

\* The task is inside pool.release(page).
Releasing(d) == tpc[d] \in {"rp_close", "rp_dead", "rp_new", "clear"}

\* C11: acquire and release pair one to one in every task.  A task that
\* leaves the use of its page enters release with that same page, whatever
\* the outcome; release is entered only from there; the page of a task does
\* not change during release; a task ends either out of release or, never
\* having held a page, by the exception of acquire.
C11_AcquireReleasePaired ==
    [][\A d \in Domains :
         /\ (tpc[d] = "run" /\ tpc'[d] # "run") =>
                (tpc'[d] \in {"rp_close", "rp_dead", "rp_new", "clear"}
                 /\ tpage'[d] = tpage[d])
         /\ (tpc'[d] \in {"rp_close", "rp_dead", "rp_new", "clear"} /\ ~Releasing(d)) =>
                tpc[d] = "run"
         /\ (Releasing(d) /\ tpc'[d] # tpc[d]) =>
                \/ tpc'[d] = "done"
                \/ (tpc'[d] \in {"rp_close", "rp_dead", "rp_new", "clear"}
                    /\ tpage'[d] = tpage[d])
         /\ (tpc'[d] = "done" /\ tpc[d] # "done") =>
                \/ Releasing(d) /\ tresult'[d] # "raised"
                \/ (tpc[d] = "acquire" /\ tpage[d] = 0
                    /\ tresult'[d] = "raised")]_vars

\* C11 witness: one task ended without a logo after its release, one ended
\* with a logo, and one ended by the exception of acquire.
C11_Witness ==
    \E d, e, f \in Domains :
        /\ tpc[d] = "done" /\ tresult[d] = ""
        /\ tpc[e] = "done" /\ tresult[e] = "logo"
        /\ tpc[f] = "done" /\ tresult[f] = "raised"

\* C13: a page that is alive when it is released is replaced exactly when
\* that release is its PAGE_MAX_USES-th one, and is cleared and queued again
\* on every earlier one; when the replacing release returns, the page is
\* closed and is neither tracked nor queued.
C13_RecycledOnThreshold ==
    [][\A d \in Domains :
         /\ (tpc[d] = "run" /\ tpc'[d] # "run"
             /\ pageStatus'[tpage[d]] = "open") =>
                /\ releases'[tpage[d]] <= PAGE_MAX_USES
                /\ (tpc'[d] = "rp_close")
                     <=> (releases'[tpage[d]] = PAGE_MAX_USES)
                /\ (tpc'[d] = "clear")
                     <=> (releases'[tpage[d]] < PAGE_MAX_USES)
         /\ (tpc[d] = "rp_new" /\ tpc'[d] \in {"done", "released"}) =>
                /\ pageStatus'[tpage[d]] = "closed"
                /\ ~InSeq(all_pages', tpage[d])
                /\ ~InSeq(available', tpage[d])]_vars

\* C14: a release that found its page dead ends with that page neither
\* tracked nor queued and with exactly one page appended to the queue, a page
\* that did not exist before, open and bound to the context the pool holds;
\* the task ends with a domain outcome, not with an exception.
C14_DeadHandleReplaced ==
    [][\A d \in Domains :
         (tpc[d] = "rp_dead" /\ tpc'[d] \in {"done", "released"}) =>
             /\ ~InSeq(all_pages', tpage[d])
             /\ ~InSeq(available', tpage[d])
             /\ \E q \in Pages :
                    /\ pageStatus[q] = "none"
                    /\ available' = Append(available, q)
                    /\ pageStatus'[q] = "open"
                    /\ pageCtx'[q] = poolContext'
             /\ tresult'[d] # "raised"]_vars

\* The rotation block of the collection loop is being executed.
InRotation == cpc \in {"new_context", "rebuild_close", "rebuild_init",
                       "close_old"}

\* rebuild(context) has returned: the pool is initialized on the new context.
RebuildComplete == initialized /\ poolContext = context /\ context # old_context

\* C16: a rotation runs in this order.  The new context is created while the
\* pool still stands on the old one; the pool moves to the new context only
\* after that, with the old context still open; the old context is closed
\* only when rebuild has returned; the rotation is recorded and the counter
\* reset only with the old context closed.
C16_RotationOrder ==
    [][/\ (context' # context) =>
              /\ cpc = "new_context"
              /\ poolContext = old_context /\ poolContext' = old_context
              /\ ctxClosed' = ctxClosed
              /\ total_restarts' = total_restarts
       /\ (poolContext' # poolContext) =>
              /\ cpc = "rebuild_close"
              /\ poolContext' = context /\ context # old_context
              /\ old_context \notin ctxClosed'
              /\ total_restarts' = total_restarts
       /\ (InRotation /\ ctxClosed' # ctxClosed) =>
              /\ cpc = "close_old"
              /\ RebuildComplete
              /\ ctxClosed' = ctxClosed \cup {old_context}
       /\ (total_restarts' # total_restarts) =>
              /\ RebuildComplete
              /\ old_context \in ctxClosed'
              /\ domains_since_restart' = 0
       /\ (InRotation /\ cpc' = "collect") =>
              /\ cpc = "close_old"
              /\ total_restarts' = total_restarts + 1]_vars

\* C16 witness: a rotation has run to its end and the loop collects again.
C16_Witness ==
    /\ cpc = "collect"
    /\ total_restarts >= 1
    /\ old_context \in ctxClosed
    /\ context \notin ctxClosed

----------------------------------------------------------------------------
(* Properties of PagePool used directly *)

\* release() has not been called yet.
NoRelease == \A p \in Pages : releases[p] = 0

\* C12: acquire waits until a page is in the queue or its timeout is over.
\* A call fails only with the queue empty and the timeout elapsed, counted
\* from the call; a call that returns takes the head of the queue, not later
\* than its deadline.  While nothing is released, the callers that hold
\* pages hold distinct pages of the initial set, at most pool-size many, and
\* once they are pool-size many no other caller outlasts its deadline
\* waiting.
C12_AcquireWaitsForTimeout ==
    /\ [](\A d \in Domains :
            /\ tpc[d] = "timedout" => (now >= deadline[d] /\ tpage[d] = 0)
            /\ NoRelease =>
                 /\ Cardinality(CheckedOut) <= PLAYWRIGHT_TABS
                 /\ Holding(d) => tpage[d] \in 1 .. PLAYWRIGHT_TABS
                 /\ \A e \in Domains :
                      (e # d /\ Holding(d) /\ Holding(e)) => tpage[d] # tpage[e]
                 /\ (tpc[d] = "acquire"
                     /\ Cardinality(CheckedOut) = PLAYWRIGHT_TABS)
                        => now <= deadline[d])
    /\ [][\A d \in Domains :
            /\ (tpc[d] = "idle" /\ tpc'[d] # "idle") =>
                 (tpc'[d] = "acquire" /\ deadline'[d] = now + ACQUIRE_TIMEOUT)
            /\ (tpc[d] = "acquire" /\ tpc'[d] = "timedout") =>
                 (available = <<>> /\ now >= deadline[d])
            /\ (tpc[d] = "acquire" /\ tpc'[d] = "run") =>
                 (available # <<>> /\ tpage'[d] = Head(available)
                  /\ now <= deadline[d])]_vars

\* C12 witness: pool-size callers hold pages, nothing was released, and a
\* later caller has failed.
C12_Witness ==
    /\ NoRelease
    /\ Cardinality(CheckedOut) = PLAYWRIGHT_TABS
    /\ \E d \in Domains : tpc[d] = "timedout" /\ deadline[d] > ACQUIRE_TIMEOUT

\* C22: the variants are fetched in the order https-apex, https-www,
\* http-apex, http-www, each at most once and none skipped; a variant is
\* fetched only when every earlier one gave no markup or raised; the loop
\* ends at the first variant whose markup was processed, with or without a
\* logo, and fetches no later one.
C22_StaticVariantOrder ==
    LET f == last_static.fetched
        w == last_static.world
    IN  last_static.valid =>
            /\ Len(f) >= 1
            /\ \A j \in 1 .. Len(f) : f[j] = j
            /\ \A j \in 1 .. Len(f) - 1 : w[j] \in {"unreachable", "raises"}
            /\ Len(f) < 4 => w[Len(f)] \in {"logo", "nologo"}
            /\ \A i \in Variants :
                   (w[i] \in {"logo", "nologo"}
                    /\ \A j \in 1 .. i - 1 : w[j] \in {"unreachable", "raises"})
                       => Len(f) = i

\* C22 witness: the first variant was unreachable, the extraction raised on
\* the second, the third gave markup without a logo and the fourth, which
\* has a logo, was not fetched.
C22_Witness ==
    /\ last_static.valid
    /\ last_static.world = <<"unreachable", "raises", "nologo", "logo">>
    /\ last_static.fetched = <<1, 2, 3>>

----------------------------------------------------------------------------
(* Properties of the writer called directly *)

\* C32: the writer streams incrementally.  Once the header is written the
\* stream is the header row followed by an initial part of the records
\* write() was called with, in call order; the records not in the stream are
\* the buffer, fewer than buffer_size; after close() every record is in the
\* stream.
C32_WriterStreamsIncrementally ==
    wpc # "new" =>
        /\ wstream # <<>>
        /\ wstream[1] = HeaderRow
        /\ Len(wstream) - 1 <= Len(wcalls)
        /\ Tail(wstream) = SubSeq(wcalls, 1, Len(wstream) - 1)
        /\ wbuffer = SubSeq(wcalls, Len(wstream), Len(wcalls))
        /\ Len(wbuffer) < BUFFER_SIZE
        /\ wpc = "closed" => (Tail(wstream) = wcalls /\ wbuffer = <<>>)

\* C32 witness: records were written, some are in the stream in call order,
\* one is still in the buffer.
C32_Witness ==
    /\ wpc = "open"
    /\ Len(wcalls) = BUFFER_SIZE + 1
    /\ Len(wstream) = BUFFER_SIZE + 1
    /\ Len(wbuffer) = 1
    /\ wcalls[1] # wcalls[2]

----------------------------------------------------------------------------
(* Properties of the sizers *)

\* x brought into lo .. hi
Clamped(x, lo, hi) == IF x < lo THEN lo ELSE IF x > hi THEN hi ELSE x

\* the smaller of the two estimates of the latest call
SmallerEstimate ==
    IF last_sizing.cpu_based_workers <= last_sizing.memory_based_workers
    THEN last_sizing.cpu_based_workers
    ELSE last_sizing.memory_based_workers

\* C33: on every host each sizer returns the smaller of its CPU estimate and
\* its memory estimate, brought into its range: MIN_WORKERS .. MAX_WORKERS
\* for get_optimal_workers, the range of browser workers for
\* get_playwright_workers.
C33_SizerIsClampedMinimum ==
    /\ last_sizing.raised <=> (last_sizing.sizer # "none" /\ MemoryUnreadable)
    /\ (last_sizing.sizer = "optimal" /\ ~last_sizing.raised) =>
          /\ last_sizing.workers =
                Clamped(SmallerEstimate, MIN_WORKERS, MAX_WORKERS)
          /\ last_sizing.workers \in MIN_WORKERS .. MAX_WORKERS
    /\ (last_sizing.sizer = "playwright" /\ ~last_sizing.raised) =>
          /\ last_sizing.workers =
                Clamped(SmallerEstimate, MinPlaywrightWorkers,
                        MaxPlaywrightWorkers)
          /\ last_sizing.workers \in
                MinPlaywrightWorkers .. MaxPlaywrightWorkers

\* C33 witness: the browser sizer was called on a host whose two estimates
\* are both above its range, and returned the top of the range.
C33_Witness ==
    /\ last_sizing.sizer = "playwright"
    /\ last_sizing.cpu_based_workers > MaxPlaywrightWorkers
    /\ last_sizing.memory_based_workers > MaxPlaywrightWorkers
    /\ last_sizing.workers = MaxPlaywrightWorkers

\* C34: a sizer called on a host whose CPU count or whose available memory
\* cannot be read returns a worker count of its range and does not raise.
C34_UnreadableMetricsFallBack ==
    (last_sizing.sizer # "none" /\ (host_cpu = 0 \/ MemoryUnreadable)) =>
        /\ ~last_sizing.raised
        /\ last_sizing.sizer = "optimal" =>
              last_sizing.workers \in MIN_WORKERS .. MAX_WORKERS
        /\ last_sizing.sizer = "playwright" =>
              last_sizing.workers \in
                 MinPlaywrightWorkers .. MaxPlaywrightWorkers

----------------------------------------------------------------------------
(* Properties of the admission gates *)

\* The static tasks inside "async with sem" of run_static_phase.
InStaticStage == {d \in Domains : spc[d] = "inside"}

\* The render tasks inside "async with sem" of run_playwright_batch.
InRenderStage ==
    {d \in Domains : tpc[d] \notin {"idle", "delay", "sem", "done"}}

\* C28: once the sizers were called, at most get_optimal_workers() static
\* tasks are inside the static stage and at most get_playwright_workers()
\* render tasks are inside the render stage.
C28_GatesFollowSizer ==
    mpc # "start" =>
        /\ Cardinality(InStaticStage) <= static_workers
        /\ Cardinality(InRenderStage) <= playwright_workers

----------------------------------------------------------------------------
(* Properties of release *)

\* The task is inside pool.release(page), in the finally clause.
InRelease(d) == tpc[d] \in {"rp_dead", "rp_close", "rp_new", "clear"}

\* C37: release never lets an error out.  From the moment process_one has
\* its result and enters release, whatever the page and the browser do, the
\* task keeps that result until it is complete; a task ends with an
\* exception only out of acquire.
C37_ReleaseNeverRaises ==
    [][\A d \in Domains :
         /\ InRelease(d) =>
              /\ tresult'[d] = tresult[d]
              /\ tpc'[d] \in {tpc[d], "rp_new", "done"}
         /\ (tresult'[d] = "raised" /\ tresult[d] # "raised") =>
              tpc[d] = "acquire"]_vars

\* C37 witness: every task is complete, one with a logo, and the pool has
\* lost pages to replacements that failed.
C37_Witness ==
    /\ \A d \in Domains : tpc[d] = "done"
    /\ \E d \in Domains : tresult[d] = "logo"
    /\ \A d \in Domains : tresult[d] # "raised"
    /\ Len(all_pages) < PLAYWRIGHT_TABS

\* self._page_usage.get(page, 0)
Usage(pg) == IF page_usage[pg] = -1 THEN 0 ELSE page_usage[pg]

\* C38: every page in the queue has a usage counter below PAGE_MAX_USES.
\* A page gets the counter 0 when it is created, the release of a live page
\* raises its counter by exactly one (and recycles the page instead of
\* queueing it when that reaches PAGE_MAX_USES), and nothing else raises a
\* counter.
C38_UsageBelowLimitInQueue ==
    /\ [](\A i \in 1 .. Len(available) : Usage(available[i]) < PAGE_MAX_USES)
    /\ [][/\ \A pg \in Pages :
              /\ (pageStatus[pg] = "none" /\ pageStatus'[pg] = "open") =>
                   page_usage'[pg] = 0
              /\ page_usage'[pg] > Usage(pg) =>
                   \E d \in Domains :
                      /\ tpc[d] = "run" /\ tpage[d] = pg
                      /\ tpc'[d] = "clear"
         /\ \A d \in Domains :
              /\ (tpc[d] = "run" /\ tpc'[d] = "clear") =>
                   /\ page_usage'[tpage[d]] = Usage(tpage[d]) + 1
                   /\ page_usage'[tpage[d]] < PAGE_MAX_USES
              /\ (tpc[d] = "run" /\ tpc'[d] = "rp_close") =>
                   /\ Usage(tpage[d]) + 1 >= PAGE_MAX_USES
                   /\ page_usage'[tpage[d]] = -1]_vars

\* C38 witness: after a rotation a page with one use less than the limit is
\* in the queue.
C38_Witness ==
    /\ total_restarts >= 1
    /\ \E i \in 1 .. Len(available) :
          page_usage[available[i]] = PAGE_MAX_USES - 1

\* process_domain(page, domain) of task d is in progress.
Using(d) == tpc[d] = "run"

\* C39: a page enters the queue only as a freshly created page or out of
\* the release of the task that held it, after that task's process_domain
\* has ended; no task uses a page that is in the queue or that another task
\* holds, and a task that has its result never uses its page again.
C39_QueuedOnlyAfterUse ==
    /\ [](\A d \in Domains :
            Using(d) =>
               /\ ~InSeq(available, tpage[d])
               /\ \A e \in Domains \ {d} :
                     Holding(e) => tpage[e] # tpage[d])
    /\ [][/\ \A pg \in Pages :
              (~InSeq(available, pg) /\ InSeq(available', pg)) =>
                 \/ pageStatus[pg] = "none"
                 \/ \E d \in Domains :
                       /\ tpage[d] = pg
                       /\ tpc[d] = "clear" /\ tresult[d] # "none"
                       /\ tpc'[d] = "done"
         /\ \A d \in Domains :
              (InRelease(d) \/ tpc[d] = "done") => ~Using(d)']_vars

\* C39 witness: a page that a task used and released is in the queue while
\* another task is using its own page.
C39_Witness ==
    \E d, e \in Domains :
        /\ d # e /\ Using(e)
        /\ tpc[d] = "done" /\ tresult[d] \notin {"none", "raised"}
        /\ \E i \in 1 .. Len(available) :
              /\ releases[available[i]] >= 1
              /\ page_usage[available[i]] >= 1

----------------------------------------------------------------------------
(* Properties of the pacing delay *)

\* C27: in the render phase the pacing delay runs exactly once per domain,
\* before the task takes the admission gate or a page and so before its
\* first navigation, and its sleep lies in REQUEST_DELAY_MIN ..
\* REQUEST_DELAY_MAX whatever the domain's processing then does.
C27_PacedOncePerDomain ==
    /\ [](/\ last_sleep # NoSleep =>
              /\ last_sleep >= REQUEST_DELAY_MIN
              /\ last_sleep <= REQUEST_DELAY_MAX
          /\ \A d \in Domains :
              /\ tpc[d] = "delay" => (tpage[d] = 0 /\ tresult[d] = "none")
              /\ tpc[d] # "delay" => last_sleep # NoSleep)
    /\ [][/\ \A d \in Domains :
              /\ (tpc[d] = "delay" /\ tpc'[d] # "delay") =>
                   /\ last_sleep' \in REQUEST_DELAY_MIN .. REQUEST_DELAY_MAX
                   /\ tpc'[d] = "sem"
                   /\ sem' = sem
                   /\ tpage'[d] = 0
              /\ tpc'[d] = "delay" => tpc[d] = "delay"
              /\ (tpc[d] = "sem" /\ tpc'[d] # "sem") =>
                   (tpc'[d] = "acquire" /\ sem' = sem - 1)
         /\ last_sleep' # last_sleep =>
              \E d \in Domains : tpc[d] = "delay" /\ tpc'[d] = "sem"]_vars

\* C27 witness: every domain has slept, the latest sleep was the longest
\* possible, and a domain has been processed to a result.
C27_Witness ==
    /\ last_sleep = REQUEST_DELAY_MAX
    /\ \A e \in Domains : tpc[e] # "delay"
    /\ \E d \in Domains :
          tpc[d] = "done" /\ tresult[d] \notin {"none", "raised"}

----------------------------------------------------------------------------
(* Properties of process_domain *)

\* The page.goto calls of the log, in their order.
IsGoto(e) == e[2] = "goto"
Navigations == SelectSeq(rlog, IsGoto)

\* Positions of the log at which the call c was made for variant v.
CallsOf(v, c) == {i \in 1 .. Len(rlog) : rlog[i][1] = v /\ rlog[i][2] = c}

\* The loop is done with variant v: it is at a later one or has returned.
VariantOver(v) == rvar > v \/ rpc = "done"

\* C23: the variants are navigated in the order https-apex, https-www,
\* http-apex, http-www, each at most once; a navigation that ends with a
\* timeout or an error is followed at once by the navigation of the next
\* variant (or by the return after the last); a logo ends the attempt: it is
\* the last call on the page and process_domain has returned it.
C23_RenderVariantOrder ==
    /\ \A j \in 1 .. Len(Navigations) : Navigations[j][1] = j
    /\ \A i \in 1 .. Len(rlog) :
         /\ (rlog[i][2] = "goto" /\ rlog[i][3] # "ok") =>
                IF i < Len(rlog)
                THEN rlog[i + 1] [2] = "goto" /\ rlog[i + 1][1] = rlog[i][1] + 1
                ELSE \/ rpc = "goto" /\ rvar = rlog[i][1] + 1
                     \/ rpc = "done" /\ rlogo = "" /\ rlog[i][1] + 1 \notin Variants
         /\ rlog[i][3] = "logo" =>
                i = Len(rlog) /\ rpc = "done" /\ rlogo = "logo"
    /\ rlogo = "logo" => (rlog # <<>> /\ rlog[Len(rlog)][3] = "logo")

\* C23 witness: the first navigation timed out, the second failed, the third
\* variant gave the logo and the fourth was not navigated.
C23_Witness ==
    /\ rpc = "done"
    /\ rlogo = "logo"
    /\ Len(Navigations) = 3
    /\ Navigations[1][3] = "timeout"
    /\ Navigations[2][3] = "error"

\* C24: extract_favicon is called only when all four variants have been
\* navigated and extract_logo has found nothing on them.
C24_FaviconAfterAllVariants ==
    \A i \in 1 .. Len(rlog) :
        rlog[i][2] = "favicon" =>
            /\ \A v \in Variants : \E j \in 1 .. i : rlog[j] [2] = "goto"
                                                     /\ rlog[j][1] = v
            /\ \A j \in 1 .. i : rlog[j][2] = "extract" => rlog[j][3] = "none"

\* C25: when detect_captcha is positive for a variant, neither the cookie
\* handling nor dismiss_overlays, extract_logo or extract_favicon is called
\* for that variant, and the loop goes on with the navigation of the next
\* variant (or returns without a logo after the last).
C25_ChallengeSkipsVariant ==
    \A i \in 1 .. Len(rlog) :
        (rlog[i][2] = "detect" /\ rlog[i][3] = "positive") =>
            LET v == rlog[i][1]
            IN  /\ \A c \in {"cookies", "overlays", "extract", "favicon"} :
                       CallsOf(v, c) = {}
                /\ IF i < Len(rlog)
                   THEN rlog[i + 1][2] = "goto" /\ rlog[i + 1][1] = v + 1
                   ELSE \/ rpc = "goto" /\ rvar = v + 1
                        \/ rpc = "done" /\ rlogo = "" /\ v + 1 \notin Variants

\* C25 witness: a challenge on the first variant, a logo on the second.
C25_Witness ==
    /\ rpc = "done"
    /\ rlogo = "logo"
    /\ \E i \in CallsOf(1, "detect") : rlog[i][3] = "positive"
    /\ \E i \in CallsOf(2, "extract") : rlog[i][3] = "logo"

\* C26: a failed inspection in detect_captcha counts as no challenge, and a
\* failure of the cookie handling or of dismiss_overlays does not end the
\* variant: extract_logo is called next on that page, and no variant is over
\* after such a failure without its extract_logo call.
C26_DetectionAndDismissalErrorsPass ==
    \A i \in 1 .. Len(rlog) :
        (rlog[i][2] \in {"detect", "cookies", "overlays"}
         /\ rlog[i][3] = "error") =>
            LET v == rlog[i][1]
            IN  /\ VariantOver(v) => CallsOf(v, "extract") # {}
                /\ rlog[i][2] = "detect" =>
                       IF i < Len(rlog)
                       THEN rlog[i + 1] = <<v, "cookies", rlog[i + 1][3]>>
                       ELSE rpc = "cookies" /\ rvar = v
                /\ rlog[i][2] \in {"cookies", "overlays"} =>
                       IF i < Len(rlog)
                       THEN rlog[i + 1] = <<v, "extract", rlog[i + 1][3]>>
                       ELSE rpc = "extract" /\ rvar = v

\* C26 witness: the inspection failed on the first variant and the cookie
\* handling on the second, and the logo was extracted from the second.
C26_Witness ==
    /\ rpc = "done"
    /\ rlogo = "logo"
    /\ \E i \in CallsOf(1, "detect") : rlog[i][3] = "error"
    /\ CallsOf(1, "extract") # {}
    /\ \E i \in CallsOf(2, "cookies") : rlog[i][3] = "error"
    /\ \E i \in CallsOf(2, "extract") : rlog[i][3] = "logo"

----------------------------------------------------------------------------
(* Properties of RestartManager *)

\* C15: the counter of domains since the last rotation never decreases
\* except to 0 in the step that records a rotation, and every recorded
\* rotation (total_restarts grows by one) sets it to 0.
C15_CounterResetOncePerRotation ==
    [][/\ total_restarts' \in {total_restarts, total_restarts + 1}
       /\ (total_restarts' = total_restarts + 1) =>
              domains_since_restart' = 0
       /\ (total_restarts' = total_restarts) =>
              domains_since_restart' >= domains_since_restart]_vars

\* C15 witness: a rotation has been recorded and the counter has grown again.
C15_Witness == total_restarts >= 1 /\ domains_since_restart >= 2

\* C17: should_restart() reads the memory only at a count that is a multiple
\* of memory_check_interval; at such a count a memory above the threshold
\* makes it answer true; at a count that is no multiple and is below the
\* count threshold it answers false whatever the memory is.
C17_MemoryCheckedAtMultiples ==
    last_call # NoCall =>
        /\ last_call.read => last_call.count % MEMORY_CHECK_INTERVAL = 0
        /\ (last_call.count % MEMORY_CHECK_INTERVAL = 0 /\ last_call.memHigh)
               => last_call.answer
        /\ (last_call.count % MEMORY_CHECK_INTERVAL # 0
            /\ last_call.count < RESTART_EVERY_N_DOMAINS)
               => (~last_call.answer /\ ~last_call.read)

\* C17 witness: one call below the count threshold at a count that is no
\* multiple of the interval, made while the memory was above the threshold.
C17_Witness ==
    /\ last_call # NoCall
    /\ last_call.count % MEMORY_CHECK_INTERVAL # 0
    /\ last_call.count < RESTART_EVERY_N_DOMAINS
    /\ last_call.memHigh

----------------------------------------------------------------------------
(* Properties of the static stage *)

\* Some variant of the world answers with markup.
HasMarkup(w) == \E i \in Variants : w[i] # "unreachable"
\* Some variant of the world answers with markup in which a logo is found.
ExposesLogo(w) == \E i \in Variants : w[i] = "logo"

\* The writer was handed a record of the domain.
InFoundOutput(d) == InSeq(wbuffer, d) \/ InSeq(wstream, d)

\* C18: a domain with at least one variant whose markup exposes a logo is
\* returned as found, with a logo URL and needs_render false, and is written
\* to the found output.
C18_LogoOnAnyVariantIsFound ==
    (last_static.valid /\ ExposesLogo(last_static.world)) =>
        /\ last_static.logo_url # ""
        /\ ~last_static.needs_render
        /\ InFoundOutput(last_static.domain)

\* C19: a domain for which markup is retrieved and no variant exposes a logo
\* is returned with needs_render true, is in the render input and is neither
\* written as found nor in the static failed list.
C19_NoLogoNeedsRender ==
    (/\ last_static.valid
     /\ HasMarkup(last_static.world)
     /\ ~ExposesLogo(last_static.world)) =>
        /\ last_static.logo_url = ""
        /\ last_static.needs_render
        /\ InSeq(needs_render, last_static.domain)
        /\ ~InFoundOutput(last_static.domain)
        /\ ~InSeq(static_failed, last_static.domain)

\* C19 witness: run_static_phase has returned after such a domain and another
\* domain that was found.
C19_Witness ==
    /\ last_static.valid
    /\ \E i \in Variants : last_static.world[i] = "nologo"
    /\ \E i \in Variants : last_static.world[i] = "raises"
    /\ ~ExposesLogo(last_static.world)
    /\ mpc = "launch"
    /\ static_found >= 1

\* C20: a domain none of whose variants is reachable is in the static failed
\* list and is not in the render input.
C20_UnreachableIsFailed ==
    (last_static.valid /\ ~HasMarkup(last_static.world)) =>
        /\ last_static.logo_url = ""
        /\ ~last_static.needs_render
        /\ InSeq(static_failed, last_static.domain)
        /\ ~InSeq(needs_render, last_static.domain)

----------------------------------------------------------------------------
(* Properties of the whole run *)

\* The collection loop took the task's result and went on.
Collected(d) == tpc[d] = "done" /\ ~InSeq(doneQ, d) /\ tresult[d] # "raised"

\* Records handed to the writer, flushed or not.
Written == wstream \o wbuffer

\* How many records of the sequence are the domain's.
Occurrences(s, d) == Cardinality({i \in 1 .. Len(s) : s[i] = d})

\* s is an initial part of t.
IsPrefix(s, t) == Len(s) <= Len(t) /\ SubSeq(t, 1, Len(s)) = s

\* The completed static task of the domain returned a logo.
StaticFoundLogo(d) == sres[d][1] \notin {"none", "", "raised"}

\* The completed render task of the domain returned a logo.
RenderFoundLogo(d) == tresult[d] \notin {"none", "", "raised"}

\* The records handed to the writer, followed by the domains whose task has
\* completed with a logo and has not been collected yet, in the order of
\* their completion.
CompletedWithLogo ==
    Written \o SelectSeq(sdoneQ, StaticFoundLogo)
            \o SelectSeq(doneQ, RenderFoundLogo)

\* C29: within each phase the records are handed to the writer in the order
\* in which the tasks complete.  A task that completes with a logo comes
\* last among the domains written or completed with a logo, that sequence
\* only ever grows at its end, and the writer is handed the record of the
\* first domain of it that is not yet written.
C29_WrittenInCompletionOrder ==
    [][/\ IsPrefix(CompletedWithLogo, CompletedWithLogo')
       /\ \A d \in Domains :
            /\ (spc[d] = "inside" /\ spc'[d] = "done"
                 /\ sres'[d][1] \notin {"", "raised"}) =>
                    CompletedWithLogo' = Append(CompletedWithLogo, d)
            /\ (tpc[d] # "done" /\ tpc'[d] = "done"
                 /\ tresult'[d] \notin {"", "raised"}) =>
                    CompletedWithLogo' = Append(CompletedWithLogo, d)
       /\ Written' # Written =>
            /\ Len(CompletedWithLogo) > Len(Written)
            /\ Written' =
                 Append(Written, CompletedWithLogo[Len(Written) + 1])]_vars

\* C29 witness: in both phases the tasks completed in another order than
\* the domains were submitted, and the records were written in it.
C29_Witness ==
    /\ mpc = "done"
    /\ needs_render = <<1, 2>>
    /\ wstream = <<3, 2, 1>>

\* C30: one stage owns a domain at a time.  A render task exists only when
\* every static task has completed and been collected and the static phase
\* has returned, and only for a domain whose static task returned no logo
\* and asked for rendering; a domain with a static logo never gets a render
\* task, and render tasks are created by the launch alone.
C30_OneStageOwnsDomain ==
    /\ [](\A d \in Domains :
            /\ tpc[d] # "idle" =>
                 /\ mpc \notin {"static", "raised_static", "launch"}
                 /\ sdone = Domains
                 /\ sdoneQ = <<>>
                 /\ \A e \in Domains : spc[e] = "done"
                 /\ sres[d] = <<"", TRUE>>
                 /\ InSeq(needs_render, d)
                 /\ InSeq(render_domains, d)
                 /\ ~InSeq(static_failed, d)
            /\ StaticFoundLogo(d) => (tpc[d] = "idle" /\ ~InSeq(doneQ, d)))
    /\ [][\A d \in Domains :
            (tpc[d] = "idle" /\ tpc'[d] # "idle") =>
                (mpc = "launch" /\ mpc' = "render" /\ tpc'[d] = "delay")]_vars

\* C30 witness: the run has ended, one domain was found by the static stage
\* and never had a render task, another was handed over and rendered.
C30_Witness ==
    /\ mpc = "done"
    /\ \E d, e \in Domains :
          /\ StaticFoundLogo(d) /\ tpc[d] = "idle" /\ InSeq(wstream, d)
          /\ sres[e] = <<"", TRUE>> /\ tpc[e] = "done" /\ InSeq(wstream, e)

\* C31: after a run that ends normally every domain is exactly once in
\* exactly one of the two outputs: in the output stream if its static or its
\* render task returned a logo, in the failure manifest otherwise; nothing
\* is left in the writer's buffer.
C31_EveryDomainInOneOutput ==
    mpc = "done" =>
        /\ wbuffer = <<>>
        /\ \A d \in Domains :
              /\ Occurrences(wstream, d) + Occurrences(manifest, d) = 1
              /\ InSeq(wstream, d) <=> (StaticFoundLogo(d) \/ RenderFoundLogo(d))
              /\ InSeq(manifest, d) <=>
                    ~(StaticFoundLogo(d) \/ RenderFoundLogo(d))

\* C31 witness: a run has ended with a static logo and a render logo in the
\* stream and with a domain the static stage gave up on in the manifest.
C31_Witness ==
    /\ mpc = "done"
    /\ \E d, e, f \in Domains :
          /\ StaticFoundLogo(d) /\ InSeq(wstream, d)
          /\ RenderFoundLogo(e) /\ InSeq(wstream, e)
          /\ sres[f] = <<"", FALSE>> /\ InSeq(manifest, f)

\* No rotation so far was started by the memory trigger: every rotation
\* came after RESTART_EVERY_N_DOMAINS collected domains.
MemoryNeverFired ==
    processed = RESTART_EVERY_N_DOMAINS * total_restarts + domains_since_restart

\* C35: the triggers are evaluated at every collected render domain, and a
\* rotation starts exactly at the collections where a trigger fires and
\* domains are left.  When the memory trigger never fired, a batch of N
\* domains that has collected them all has recorded (N - 1) \div T rotations.
C35_RotationAtEveryTrigger ==
    /\ []((cpc \in {"cleanup", "returned"} /\ MemoryNeverFired) =>
            /\ processed = Len(render_domains)
            /\ total_restarts =
                  (Len(render_domains) - 1) \div RESTART_EVERY_N_DOMAINS)
    /\ [][processed' # processed =>
            /\ processed' = processed + 1
            /\ domains_since_restart' = domains_since_restart + 1
            /\ (domains_since_restart' >= RESTART_EVERY_N_DOMAINS
                 /\ processed' < Len(render_domains)) => cpc' = "new_context"
            /\ processed' = Len(render_domains) => cpc' = "cleanup"
            /\ cpc' = "new_context" =>
                 /\ processed' < Len(render_domains)
                 /\ \/ domains_since_restart' >= RESTART_EVERY_N_DOMAINS
                    \/ domains_since_restart' % MEMORY_CHECK_INTERVAL = 0]_vars

\* C35 witness: a batch of more domains than the threshold has ended after
\* a rotation, its last collection at the threshold again without one.
C35_Witness ==
    /\ cpc = "returned"
    /\ total_restarts >= 1
    /\ Len(render_domains) > RESTART_EVERY_N_DOMAINS

\* A rotation is in progress: between the trigger and record_restart().
Rotating == cpc \notin {"idle", "collect", "cleanup", "returned"} \cup Raised

\* C36: the counter of domains since the last rotation never exceeds the
\* count threshold, and the completion of a task does not change it, also
\* while a rotation is in progress.
C36_CounterWithinThreshold ==
    /\ [](domains_since_restart \in 0 .. RESTART_EVERY_N_DOMAINS)
    /\ [][(Len(doneQ') > Len(doneQ) \/ Rotating) =>
            domains_since_restart' \in {domains_since_restart, 0}]_vars

\* C36 witness: two tasks have completed while a rotation is in progress,
\* the counter is at the threshold.
C36_Witness ==
    /\ Rotating
    /\ Len(doneQ) >= 2
    /\ domains_since_restart = RESTART_EVERY_N_DOMAINS

\* C21: a valid domain none of whose variants plain HTTP reaches is handed to
\* the render phase without a static record; if its render task finds a logo
\* then, when main has ended, the output stream holds exactly one record of
\* the domain and the failure manifest does not list it.
C21_UnreachableFoundByRender ==
    LET d == last_static.domain
    IN  (last_static.valid /\ \A i \in Variants :
                                 last_static.world[i] = "unreachable") =>
            /\ InSeq(needs_render, d)
            /\ mpc \in {"static", "launch"} => Occurrences(Written, d) = 0
            /\ (Collected(d) /\ tresult[d] = "logo") =>
                   /\ Occurrences(Written, d) = 1
                   /\ ~InSeq(failed_domains, d)
                   /\ mpc \in {"done", "crashed"} =>
                          /\ Occurrences(wstream, d) = 1
                          /\ ~InSeq(manifest, d)

\* C40: a domain whose string sanitize_domain rejects is returned by the
\* static stage without a logo and with needs_render false, with no fetch; it
\* is put in the static failed list, never in the render input, no render
\* task runs for it, and once main has ended the failure manifest lists it.
\* A process_domain call that ends before its first navigation (the case of
\* a rejected string) returns an empty logo and has navigated nowhere.
C40_InvalidDomainFailsUnfetched ==
    /\ [](LET d == last_static.domain
          IN  (last_static # NoStatic /\ ~last_static.valid) =>
                 /\ last_static.fetched = <<>>
                 /\ last_static.logo_url = ""
                 /\ ~last_static.needs_render
                 /\ InSeq(static_failed, d)
                 /\ ~InSeq(needs_render, d)
                 /\ ~InSeq(render_domains, d)
                 /\ tresult[d] = "none"
                 /\ Occurrences(Written, d) = 0
                 /\ mpc \in {"done", "crashed"} => InSeq(manifest, d))
    /\ [][(rpc = "start" /\ rpc' = "done") =>
              (rlogo' = "" /\ rlog' = <<>>)]_vars

\* C8: when the browser launch or the creation of a context fails, main
\* does not crash, and once it ends every buffered record is in the success
\* stream and every domain without a record is in the failure manifest.
C8_InfrastructureFailureContained ==
    cpc \in {"raised_launch", "raised_new_context"} =>
        /\ mpc # "crashed"
        /\ mpc = "done" =>
             /\ wbuffer = <<>>
             /\ \A d \in Domains : ~InSeq(wstream, d) => InSeq(manifest, d)

\* C9: an error in one domain's processing (failed fetch, raising
\* extraction, navigation error, hard timeout) becomes that domain's
\* classification and nothing else: no static task and no render task ends
\* with an exception because of it, every collected domain is counted and is
\* either written or recorded as not found, and a run that ends leaves every
\* domain in exactly one of the success stream and the failure manifest.
C9_DomainErrorsAbsorbed ==
    /\ mpc # "raised_static"
    /\ Cardinality(sdone)
         = static_found + Len(needs_render) + Len(static_failed)
    /\ \A d \in Domains :
         /\ cause[d] \in {"notfound", "error", "hardtimeout"} => tresult[d] = ""
         /\ cause[d] = "found" => tresult[d] = "logo"
         /\ Collected(d) => (InSeq(failed_domains, d) # InSeq(Written, d))
    /\ processed = found + Len(failed_domains)
    /\ cpc \in {"cleanup", "returned"} => processed = Len(render_domains)
    /\ mpc = "done" =>
         \A d \in Domains : InSeq(wstream, d) # InSeq(manifest, d)

\* C9 witness: a run ended in which the render task of one domain met an
\* error, another domain's render task found a logo, and a third domain
\* failed in the static phase.
C9_Witness ==
    /\ mpc = "done"
    /\ cpc = "returned"
    /\ static_failed # <<>>
    /\ \E d, e \in Domains :
         /\ cause[d] = "error" /\ InSeq(manifest, d)
         /\ cause[e] = "found" /\ InSeq(wstream, e)

====
